---- MODULE Spec2Model ----
(***************************************************************************)
(* A model of the FlagVault SDK (src/src/index.ts): the per-flag cache,    *)
(* the bulk flags cache, the background refresher and isEnabled /          *)
(* getAllFlags with their network fetches in flight.                       *)
(*                                                                         *)
(* JavaScript strings are sequences of one-character strings, so that key  *)
(* building (`${flagKey}:${targetId}`) and includes(":") are computed.     *)
(* undefined and null are the one-element sequences Undefined and Null.    *)
(* The clock `now` is Date.now() in milliseconds.                          *)
(***************************************************************************)
EXTENDS Integers, Sequences, FiniteSets, Bags, TLC

\* ------------------------------------------------------------------ bounds
\* Clock step of one Tick, in milliseconds, and the number of steps.
TickMs == 30000
MaxTicks == 3
\* Largest configured cache.maxSize.
MaxCacheSize == 2
\* Configured cache.ttl, in seconds.
TtlSeconds == 60
\* Fetches in flight at one time.
MaxInFlight == 2

\* ------------------------------------------------------- program constants
MsPerSecond == 1000
RefreshWindowMs == 30000
BucketCount == 10000
ByteRange == 256
PercentScale == 100

\* ------------------------------------------------------------ JS values
Undefined == <<"undefined">>
Null == <<"null">>
EmptyString == <<>>
\* A lone UTF-16 surrogate, the code unit encodeURIComponent rejects.
LoneSurrogate == "D800"

\* JavaScript truthiness of a string | undefined | null.
Truthy(s) == s # Undefined /\ s # Null /\ s # EmptyString

\* String.prototype.includes for a one-character needle.
Includes(s, ch) == \E i \in 1..Len(s) : s[i] = ch

\* encodeURIComponent throws URIError on a lone surrogate.
EncodeThrows(s) == Includes(s, LoneSurrogate)

BoolStr(b) == IF b THEN "true" ELSE "false"

\* ------------------------------------------------------------ Map helpers
\* A Map<string, CacheEntry> is the sequence of its entries in insertion
\* order (the order Map.prototype.entries iterates in).
MapIndex(m, key) ==
  IF \E i \in 1..Len(m) : m[i].key = key
  THEN CHOOSE i \in 1..Len(m) : m[i].key = key
  ELSE 0

MapHas(m, key) == MapIndex(m, key) # 0

MapGet(m, key) == m[MapIndex(m, key)]

\* Map.prototype.delete
MapDelete(m, key) ==
  LET i == MapIndex(m, key)
  IN IF i = 0 THEN m
     ELSE SubSeq(m, 1, i - 1) \o SubSeq(m, i + 1, Len(m))

\* Map.prototype.set: an existing key keeps its place, a new key goes last.
MapSet(m, entry) ==
  LET i == MapIndex(m, entry.key)
  IN IF i = 0 THEN Append(m, entry)
     ELSE [m EXCEPT ![i] = entry]

MapKeys(m) == {m[i].key : i \in 1..Len(m)}

\* ------------------------------------------------------------ per-flag cache
\* Variant: an entry expires at expiresAt rather than after it.
getCachedValue_expiresAtBoundary(c, flagKey, t) ==
  IF ~MapHas(c, flagKey)
  THEN [hit |-> FALSE, value |-> FALSE, cache |-> c]
  ELSE LET entry == MapGet(c, flagKey)
       IN IF t >= entry.expiresAt
          THEN [hit |-> FALSE, value |-> FALSE, cache |-> MapDelete(c, flagKey)]
          ELSE [hit |-> TRUE, value |-> entry.value,
                cache |-> [c EXCEPT ![MapIndex(c, flagKey)].lastAccessed = t]]

\* Variant: an expired entry is reported absent but stays in the Map.
getCachedValue_keepsExpired(c, flagKey, t) ==
  IF ~MapHas(c, flagKey)
  THEN [hit |-> FALSE, value |-> FALSE, cache |-> c]
  ELSE LET entry == MapGet(c, flagKey)
       IN IF t > entry.expiresAt
          THEN [hit |-> FALSE, value |-> FALSE, cache |-> c]
          ELSE [hit |-> TRUE, value |-> entry.value,
                cache |-> [c EXCEPT ![MapIndex(c, flagKey)].lastAccessed = t]]

\* getCachedValue: [hit, value, cache], cache being the Map afterwards.
getCachedValue(c, flagKey, t) ==
  IF ~MapHas(c, flagKey)
  THEN [hit |-> FALSE, value |-> FALSE, cache |-> c]
  ELSE LET entry == MapGet(c, flagKey)
       IN IF t > entry.expiresAt
          THEN [hit |-> FALSE, value |-> FALSE, cache |-> MapDelete(c, flagKey)]
          ELSE [hit |-> TRUE, value |-> entry.value,
                cache |-> [c EXCEPT ![MapIndex(c, flagKey)].lastAccessed = t]]

\* Variant: among the entries of least lastAccessed, the last in iteration
\* order is evicted.
evictOldestEntry_lastOfTies(c) ==
  IF c = <<>> THEN c
  ELSE LET i == CHOOSE i \in 1..Len(c) :
                  /\ \A j \in 1..Len(c) : c[i].lastAccessed <= c[j].lastAccessed
                  /\ \A j \in (i + 1)..Len(c) : c[i].lastAccessed < c[j].lastAccessed
       IN SubSeq(c, 1, i - 1) \o SubSeq(c, i + 1, Len(c))

\* The loop of evictOldestEntry: the first entry, in iteration order, whose
\* lastAccessed is strictly below every earlier one's.
RECURSIVE OldestKeyFrom(_, _, _, _)
OldestKeyFrom(c, i, oldestKey, oldestTime) ==
  IF i > Len(c) THEN oldestKey
  ELSE IF oldestTime = -1 \/ c[i].lastAccessed < oldestTime
       THEN OldestKeyFrom(c, i + 1, c[i].key, c[i].lastAccessed)
       ELSE OldestKeyFrom(c, i + 1, oldestKey, oldestTime)

\* evictOldestEntry (oldestTime = -1 stands for Infinity).
evictOldestEntry(c) ==
  LET oldestKey == OldestKeyFrom(c, 1, EmptyString, -1)
  IN IF Truthy(oldestKey) THEN MapDelete(c, oldestKey) ELSE c

\* Variant: the capacity check is skipped.
setCachedValue_noEvict(c, flagKey, value, t, cfg) ==
  MapSet(c, [key |-> flagKey, value |-> value, cachedAt |-> t,
             expiresAt |-> t + cfg.ttl * MsPerSecond, lastAccessed |-> t])

\* Variant: overwriting a resident key keeps the lastAccessed it had.
setCachedValue_keepsLastAccessed(c, flagKey, value, t, cfg) ==
  LET c1 == IF Len(c) >= cfg.maxSize THEN evictOldestEntry(c) ELSE c
      accessed == IF MapHas(c1, flagKey) THEN MapGet(c1, flagKey).lastAccessed ELSE t
  IN MapSet(c1, [key |-> flagKey, value |-> value, cachedAt |-> t,
                 expiresAt |-> t + cfg.ttl * MsPerSecond, lastAccessed |-> accessed])

\* setCachedValue
setCachedValue(c, flagKey, value, t, cfg) ==
  LET c1 == IF Len(c) >= cfg.maxSize THEN evictOldestEntry(c) ELSE c
  IN MapSet(c1, [key |-> flagKey, value |-> value, cachedAt |-> t,
                 expiresAt |-> t + cfg.ttl * MsPerSecond, lastAccessed |-> t])

\* Variant: the 'api' policy raises like 'throw'.
handleCacheMiss_apiThrows(cfg, defaultValue) ==
  CASE cfg.fallbackBehavior = "default" -> BoolStr(defaultValue)
    [] cfg.fallbackBehavior = "throw" -> "throw"
    [] cfg.fallbackBehavior = "api" -> "throw"
    [] OTHER -> BoolStr(defaultValue)

\* handleCacheMiss: the value returned, or "throw".
handleCacheMiss(cfg, defaultValue) ==
  CASE cfg.fallbackBehavior = "default" -> BoolStr(defaultValue)
    [] cfg.fallbackBehavior = "throw" -> "throw"
    [] cfg.fallbackBehavior = "api" -> BoolStr(defaultValue)
    [] OTHER -> BoolStr(defaultValue)

\* ------------------------------------------------------------ rollout evaluator
\* crypto.createHash("sha256") is library code: its digest is modelled by a
\* fixed deterministic mixing function of the input's characters, of which
\* only the first two bytes are used.
Alphabet == <<"f", "g", "u", "v", "s", "a", "b", ":", "-", "0", "1", LoneSurrogate>>

CharCode(ch) == CHOOSE i \in 1..Len(Alphabet) : Alphabet[i] = ch

RECURSIVE Mix(_, _)
Mix(s, h) ==
  IF s = <<>> THEN h
  ELSE Mix(Tail(s), (h * 251 + CharCode(Head(s)) * 7919 + 13) % (ByteRange * ByteRange))

\* The first two bytes of the digest.
Digest(s) ==
  LET h == Mix(s, 40503)
  IN <<h \div ByteRange, h % ByteRange>>

\* A FeatureFlagMetadata: rolloutPercentage and rolloutSeed are <<>> when
\* null or undefined, <<x>> when present.
Flag(key, isEnabled, pct, seed) ==
  [key |-> key, isEnabled |-> isEnabled, rolloutPercentage |-> pct, rolloutSeed |-> seed]

\* Variant: a disabled flag is evaluated like an enabled one.
evaluateFlag_skipsDisabledCheck(flag, targetId, rnd) ==
  IF flag.rolloutPercentage = <<>> \/ flag.rolloutSeed = <<>> THEN flag.isEnabled
  ELSE LET rolloutTargetId == IF Truthy(targetId) THEN targetId ELSE rnd
           hash == Digest(rolloutTargetId \o <<"-">> \o flag.key \o <<"-">> \o flag.rolloutSeed[1])
           bucket == (hash[1] * ByteRange + hash[2]) % BucketCount
           threshold == flag.rolloutPercentage[1] * PercentScale
       IN bucket < threshold

\* Variant: the random identifier is used even when a targetId is given.
evaluateFlag_alwaysRandom(flag, targetId, rnd) ==
  IF ~flag.isEnabled THEN FALSE
  ELSE IF flag.rolloutPercentage = <<>> \/ flag.rolloutSeed = <<>> THEN flag.isEnabled
  ELSE LET hash == Digest(rnd \o <<"-">> \o flag.key \o <<"-">> \o flag.rolloutSeed[1])
           bucket == (hash[1] * ByteRange + hash[2]) % BucketCount
           threshold == flag.rolloutPercentage[1] * PercentScale
       IN bucket < threshold

\* Variant: the two bytes are not reduced modulo 10000.
evaluateFlag_noModulo(flag, targetId, rnd) ==
  IF ~flag.isEnabled THEN FALSE
  ELSE IF flag.rolloutPercentage = <<>> \/ flag.rolloutSeed = <<>> THEN flag.isEnabled
  ELSE LET rolloutTargetId == IF Truthy(targetId) THEN targetId ELSE rnd
           hash == Digest(rolloutTargetId \o <<"-">> \o flag.key \o <<"-">> \o flag.rolloutSeed[1])
           bucket == hash[1] * ByteRange + hash[2]
           threshold == flag.rolloutPercentage[1] * PercentScale
       IN bucket < threshold

\* Variant: the threshold is reduced modulo 10000 like the bucket.
evaluateFlag_thresholdWraps(flag, targetId, rnd) ==
  IF ~flag.isEnabled THEN FALSE
  ELSE IF flag.rolloutPercentage = <<>> \/ flag.rolloutSeed = <<>> THEN flag.isEnabled
  ELSE LET rolloutTargetId == IF Truthy(targetId) THEN targetId ELSE rnd
           hash == Digest(rolloutTargetId \o <<"-">> \o flag.key \o <<"-">> \o flag.rolloutSeed[1])
           bucket == (hash[1] * ByteRange + hash[2]) % BucketCount
           threshold == (flag.rolloutPercentage[1] * PercentScale) % BucketCount
       IN bucket < threshold

\* evaluateFlag; rnd is the value crypto.randomBytes(16).toString("hex") yields.
evaluateFlag(flag, targetId, rnd) ==
  IF ~flag.isEnabled THEN FALSE
  ELSE IF flag.rolloutPercentage = <<>> \/ flag.rolloutSeed = <<>> THEN flag.isEnabled
  ELSE LET rolloutTargetId == IF Truthy(targetId) THEN targetId ELSE rnd
           hash == Digest(rolloutTargetId \o <<"-">> \o flag.key \o <<"-">> \o flag.rolloutSeed[1])
           bucket == (hash[1] * ByteRange + hash[2]) % BucketCount
           threshold == flag.rolloutPercentage[1] * PercentScale
       IN bucket < threshold

\* ------------------------------------------------------------ state
VARIABLES
  cacheConfig,       \* Required<CacheConfig>, fixed by the constructor
  cache,             \* Map<string, CacheEntry>
  bulkFlagsCache,    \* <<>> when undefined, else <<[flags, cachedAt, expiresAt]>>
  refreshTimer,      \* TRUE while the setInterval timer is set
  refreshInProgress,
  inflight,          \* the bag of fetches awaiting their response or their body
  now,               \* Date.now()
  returned,          \* <<>>, or <<the Map getAllFlags last handed to its caller>>
  hook,              \* the React component of useFeatureFlag / useFeatureFlagCached
  last               \* the operation that made the last step, and what it returned

vars == <<cacheConfig, cache, bulkFlagsCache, refreshTimer, refreshInProgress,
          inflight, now, returned, hook, last>>

\* A fetch in flight: who awaits it (kind), what it awaits (phase: the
\* response of fetch(), then the body of response.json()), and the locals
\* of the awaiting call.
Request(kind, phase, flagKey, targetId, defaultValue, cacheKey) ==
  [kind |-> kind, phase |-> phase, flagKey |-> flagKey, targetId |-> targetId,
   defaultValue |-> defaultValue, cacheKey |-> cacheKey]

Started(fl, r) == fl (+) SetToBag({r})
Settled(fl, r) == fl (-) SetToBag({r})
Pending(fl) == BagToSet(fl)
FreeSlots(fl) == MaxInFlight - BagCardinality(fl)

\* What a step records: the operation, the arguments of the call, the
\* network's answer the step consumed (input), its result ("pending" when
\* the call now awaits a fetch), the number of requests it sent, and the
\* keys it removed from the per-flag cache. Every operation records
\* itself, so a call that changes nothing else is still a step.
Record(op, flagKey, defaultArg, targetId, input, result, issued, removed) ==
  [op |-> op, flagKey |-> flagKey, defaultArg |-> defaultArg, targetId |-> targetId,
   input |-> input, result |-> result, issued |-> issued, removed |-> removed]

Event(op, input, result, issued, removed) ==
  Record(op, EmptyString, "undefined", Undefined, input, result, issued, removed)

\* The keys of c that c2 no longer holds.
Removed(c, c2) == MapKeys(c) \ MapKeys(c2)

\* ------------------------------------------------------------ constructor
\* The cacheConfig the constructor builds from cache = {enabled, ttl, maxSize,
\* refreshInterval, fallbackBehavior}.
Config(enabled, ttl, maxSize, refreshInterval, fallbackBehavior) ==
  [enabled |-> enabled, ttl |-> ttl, maxSize |-> maxSize,
   refreshInterval |-> refreshInterval, fallbackBehavior |-> fallbackBehavior]

\* No component is rendered: the state of useState, the effects that have
\* run (each with the arguments it closed over, its isMounted flag and
\* whether its checkFlag still awaits sdk.isEnabled) and the hooks'
\* module-level flagCache.
NoHook ==
  [kind |-> "none", mounted |-> FALSE, isEnabled |-> FALSE, isLoading |-> FALSE,
   error |-> <<>>, effects |-> <<>>, flagCache |-> <<>>]

Constructed(cfg) ==
  /\ cacheConfig = cfg
  /\ hook = NoHook
  /\ cache = <<>>
  /\ bulkFlagsCache = <<>>
  /\ refreshTimer = (cfg.enabled /\ cfg.refreshInterval > 0)
  /\ refreshInProgress = FALSE
  /\ inflight = EmptyBag
  /\ now = 0
  /\ returned = <<>>
  /\ last = Event("constructor", "none", "none", 0, {})

\* ------------------------------------------------------------ isEnabled
\* Values crypto.randomBytes(16).toString("hex") may yield (shortened).
RandomIds == {<<"a", "0">>, <<"b", "1">>}

\* Variant: an omitted defaultValue counts as true.
DefaultValueOf_omittedTrue(defaultArg) == defaultArg # "false"

\* defaultValue: boolean = false
DefaultValueOf(defaultArg) == IF defaultArg = "undefined" THEN FALSE ELSE defaultArg = "true"

\* contextOrOptions is undefined, a string (legacy context) or {targetId?}.
NoOptions == [type |-> "undefined", targetId |-> Undefined]
Context(s) == [type |-> "string", targetId |-> s]
Options(s) == [type |-> "object", targetId |-> s]

TargetIdOf(contextOrOptions) ==
  IF contextOrOptions.type = "string" THEN contextOrOptions.targetId
  ELSE IF contextOrOptions.type = "object" THEN contextOrOptions.targetId
  ELSE Undefined

\* Variant: the target identifier is left out of the cache key.
CacheKeyOf_noTarget(flagKey, targetId) == flagKey

\* const cacheKey = targetId ? `${flagKey}:${targetId}` : flagKey
CacheKeyOf(flagKey, targetId) ==
  IF Truthy(targetId) THEN flagKey \o <<":">> \o targetId ELSE flagKey

\* this.bulkFlagsCache.flags.get(flagKey): <<>> or <<flag>>.
BulkFlagsGet(flags, flagKey) ==
  IF MapHas(flags, flagKey) THEN <<MapGet(flags, flagKey)>> ELSE <<>>

\* Variant: the bulk branch is never taken.
BulkUsable_never(cfg, bulk, t, flagKey) == FALSE

\* The guard of the bulk branch of isEnabled.
BulkUsable(cfg, bulk, t, flagKey) ==
  /\ cfg.enabled
  /\ bulk # <<>>
  /\ t < bulk[1].expiresAt
  /\ BulkFlagsGet(bulk[1].flags, flagKey) # <<>>

\* Variant: the per-flag cache is never consulted.
CacheLookup_never(cfg, c, cacheKey, t) ==
  [hit |-> FALSE, value |-> FALSE, cache |-> c]

\* The per-flag cache lookup of isEnabled.
CacheLookup(cfg, c, cacheKey, t) ==
  IF cfg.enabled
  THEN getCachedValue(c, cacheKey, t)
  ELSE [hit |-> FALSE, value |-> FALSE, cache |-> c]

\* Variant: only the empty string is rejected.
RejectsKey_emptyOnly(flagKey) == flagKey = EmptyString

\* The throw of `if (!flagKey)`.
RejectsKey(flagKey) == ~Truthy(flagKey)

IsEnabled(flagKey, defaultArg, contextOrOptions) ==
  LET defaultValue == DefaultValueOf(defaultArg)
      targetId == TargetIdOf(contextOrOptions)
      cacheKey == CacheKeyOf(flagKey, targetId)
      looked == CacheLookup(cacheConfig, cache, cacheKey, now)
      Returns(result, issued) ==
        Record("isEnabled", flagKey, defaultArg, targetId, "none", result, issued,
               Removed(cache, looked.cache))
  IN IF RejectsKey(flagKey)
     THEN /\ last' = Record("isEnabled", flagKey, defaultArg, targetId, "none",
                            "ParameterError", 0, {})
          /\ UNCHANGED <<cacheConfig, returned, cache, bulkFlagsCache, refreshTimer,
                         refreshInProgress, inflight, now>>
     ELSE IF BulkUsable(cacheConfig, bulkFlagsCache, now, flagKey)
     THEN /\ \E rnd \in RandomIds :
               last' = Record("isEnabled", flagKey, defaultArg, targetId, "none",
                          BoolStr(evaluateFlag(BulkFlagsGet(bulkFlagsCache[1].flags, flagKey)[1],
                                               targetId, rnd)), 0, {})
          /\ UNCHANGED <<cacheConfig, returned, cache, bulkFlagsCache, refreshTimer,
                         refreshInProgress, inflight, now>>
     ELSE IF looked.hit
     THEN /\ cache' = looked.cache
          /\ last' = Returns(BoolStr(looked.value), 0)
          /\ UNCHANGED <<cacheConfig, returned, bulkFlagsCache, refreshTimer, refreshInProgress,
                         inflight, now>>
     ELSE IF Truthy(targetId) /\ EncodeThrows(targetId)
     THEN /\ cache' = looked.cache
          /\ last' = Returns(IF handleCacheMiss(cacheConfig, defaultValue) = "throw"
                             THEN "URIError"
                             ELSE handleCacheMiss(cacheConfig, defaultValue), 0)
          /\ UNCHANGED <<cacheConfig, returned, bulkFlagsCache, refreshTimer, refreshInProgress,
                         inflight, now>>
     ELSE /\ FreeSlots(inflight) >= 1
          /\ cache' = looked.cache
          /\ inflight' = Started(inflight,
                           Request("isEnabled", "fetch", flagKey, targetId, defaultValue, cacheKey))
          /\ last' = Returns("pending", 1)
          /\ UNCHANGED <<cacheConfig, returned, bulkFlagsCache, refreshTimer, refreshInProgress, now>>

\* ------------------------------------------------------------ single-flag fetch
\* response.ok
StatusOk(status) == status >= 200 /\ status <= 299

\* (data as { enabled?: boolean })?.enabled ?? false, for a parsed body.
EnabledOf(body) == body = "enabled:true"

\* Variant: a body without the enabled field counts as unparseable.
BodyParsed_needsEnabledField(body) == body \notin {"invalid", "noEnabledField"}

\* response.json() resolved: the body was parseable.
BodyParsed(body) == body # "invalid"

\* Variant: failures are cached too.
ShouldCacheFailure_always == TRUE

\* shouldCache on every failure return of fetchFlagFromApiWithCacheInfo.
ShouldCacheFailure == FALSE

\* The refresh fetches in flight besides r.
OtherRefreshes(fl, r) ==
  {q \in Pending(Settled(fl, r)) : q.kind = "refresh"}

\* Variant: isEnabled writes whenever the result is cacheable, caching
\* enabled or not.
WriteBack_ignoresEnabled(cfg, c, r, value, shouldCache, t) ==
  IF shouldCache
  THEN setCachedValue(c, IF r.kind = "isEnabled" THEN r.cacheKey ELSE r.flagKey, value, t, cfg)
  ELSE c

\* Variant: isEnabled does not overwrite an entry that is already resident.
WriteBack_firstWins(cfg, c, r, value, shouldCache, t) ==
  IF r.kind = "isEnabled"
  THEN IF cfg.enabled /\ shouldCache /\ ~MapHas(c, r.cacheKey)
       THEN setCachedValue(c, r.cacheKey, value, t, cfg) ELSE c
  ELSE IF shouldCache
       THEN setCachedValue(c, r.flagKey, value, t, cfg) ELSE c

\* The write that follows fetchFlagFromApiWithCacheInfo: in isEnabled
\* (`if (this.cacheConfig.enabled && shouldCache)`) and in the refresher's
\* callback (`if (shouldCache)`).
WriteBack(cfg, c, r, value, shouldCache, t) ==
  IF r.kind = "isEnabled"
  THEN IF cfg.enabled /\ shouldCache
       THEN setCachedValue(c, r.cacheKey, value, t, cfg) ELSE c
  ELSE IF shouldCache
       THEN setCachedValue(c, r.flagKey, value, t, cfg) ELSE c

\* Variant: a cycle whose last re-fetch failed never resets the flag.
CompleteSingle_failureKeepsInProgress(r, input, value, shouldCache) ==
  LET written == WriteBack(cacheConfig, cache, r, value, shouldCache, now)
  IN /\ inflight' = Settled(inflight, r)
     /\ cache' = written
     /\ IF r.kind = "isEnabled"
        THEN /\ last' = Event("isEnabled.return", input, BoolStr(value), 0,
                              Removed(cache, written))
             /\ UNCHANGED refreshInProgress
        ELSE /\ last' = Event("refresh.settled", input, BoolStr(value), 0,
                              Removed(cache, written))
             /\ refreshInProgress' =
                  IF OtherRefreshes(inflight, r) # {} \/ ~shouldCache
                  THEN refreshInProgress ELSE FALSE
     /\ UNCHANGED <<cacheConfig, returned, bulkFlagsCache, refreshTimer, now>>

\* fetchFlagFromApiWithCacheInfo has returned {value, shouldCache} for the
\* request r: the rest of isEnabled, or of the refresher's callback (and,
\* after the last one of a cycle, of refreshExpiredFlags).
CompleteSingle(r, input, value, shouldCache) ==
  LET written == WriteBack(cacheConfig, cache, r, value, shouldCache, now)
  IN /\ inflight' = Settled(inflight, r)
     /\ cache' = written
     /\ IF r.kind = "isEnabled"
        THEN /\ last' = Event("isEnabled.return", input, BoolStr(value), 0,
                              Removed(cache, written))
             /\ UNCHANGED refreshInProgress
        ELSE /\ last' = Event("refresh.settled", input, BoolStr(value), 0,
                              Removed(cache, written))
             /\ refreshInProgress' =
                  IF OtherRefreshes(inflight, r) # {} THEN refreshInProgress ELSE FALSE
     /\ UNCHANGED <<cacheConfig, returned, bulkFlagsCache, refreshTimer, now>>

IsSingle(r) == r.kind \in {"isEnabled", "refresh"}

\* await fetch(url, ...) resolves with a response of the given status.
SingleResponse(r, status) ==
  /\ IsSingle(r)
  /\ r.phase = "fetch"
  /\ IF StatusOk(status)
     THEN /\ inflight' = Started(Settled(inflight, r), [r EXCEPT !.phase = "body"])
          /\ last' = Event("response", "ok", "pending", 0, {})
          /\ UNCHANGED <<cacheConfig, returned, cache, bulkFlagsCache, refreshTimer,
                         refreshInProgress, now>>
     ELSE CompleteSingle(r, ToString(status), r.defaultValue, ShouldCacheFailure)

\* await fetch(url, ...) rejects: the abort of the timeout (AbortError), a
\* connection failure (TypeError) or any other error.
SingleRejects(r, error) ==
  /\ IsSingle(r)
  /\ r.phase = "fetch"
  /\ error \in {"AbortError", "TypeError", "Error"}
  /\ CompleteSingle(r, error, r.defaultValue, ShouldCacheFailure)

\* await response.json() settles: body is "invalid" when it rejects.
SingleBody(r, body) ==
  /\ IsSingle(r)
  /\ r.phase = "body"
  /\ IF BodyParsed(body)
     THEN CompleteSingle(r, body, EnabledOf(body), TRUE)
     ELSE CompleteSingle(r, body, r.defaultValue, ShouldCacheFailure)

\* ------------------------------------------------------------ background refresher
\* The scan of refreshExpiredFlags: the keys to refresh, in iteration order.
RECURSIVE FlagsToRefresh(_, _)
FlagsToRefresh(c, t) ==
  IF c = <<>> THEN <<>>
  ELSE LET entry == Head(c)
           timeUntilExpiry == entry.expiresAt - t
       IN IF timeUntilExpiry <= RefreshWindowMs /\ ~Includes(entry.key, ":")
          THEN <<entry.key>> \o FlagsToRefresh(Tail(c), t)
          ELSE FlagsToRefresh(Tail(c), t)

\* One fetchFlagFromApiWithCacheInfo(flagKey, false) per key.
RECURSIVE StartRefreshes(_, _)
StartRefreshes(fl, keys) ==
  IF keys = <<>> THEN fl
  ELSE StartRefreshes(
         Started(fl, Request("refresh", "fetch", Head(keys), Undefined, FALSE, Head(keys))),
         Tail(keys))

\* Variant: the callback starts a cycle whether or not one is in progress.
TimerFires_ignoresInProgress ==
  /\ refreshTimer
  /\ LET keys == FlagsToRefresh(cache, now)
     IN /\ Len(keys) <= FreeSlots(inflight)
        /\ inflight' = StartRefreshes(inflight, keys)
        /\ refreshInProgress' = (refreshInProgress \/ Len(keys) > 0)
        /\ last' = Event("timer.refresh", "none", "none", Len(keys), {})
        /\ UNCHANGED <<hook, cacheConfig, returned, cache, bulkFlagsCache, refreshTimer, now>>

\* The setInterval callback of startBackgroundRefresh.
TimerFires ==
  /\ refreshTimer
  /\ IF refreshInProgress
     THEN /\ last' = Event("timer.skipped", "none", "none", 0, {})
          /\ UNCHANGED <<hook, cacheConfig, returned, cache, bulkFlagsCache, refreshTimer,
                         refreshInProgress, inflight, now>>
     ELSE LET keys == FlagsToRefresh(cache, now)
          IN /\ Len(keys) <= FreeSlots(inflight)
             /\ inflight' = StartRefreshes(inflight, keys)
             /\ refreshInProgress' = (Len(keys) > 0)
             /\ last' = Event("timer.refresh", "none", "none", Len(keys), {})
             /\ UNCHANGED <<hook, cacheConfig, returned, cache, bulkFlagsCache, refreshTimer, now>>

\* ------------------------------------------------------------ bulk fetch
\* The Map getAllFlags builds from data.flags: a later flag of the same key
\* replaces the earlier one in its place.
RECURSIVE FlagsMap(_, _)
FlagsMap(list, m) ==
  IF list = <<>> THEN m ELSE FlagsMap(Tail(list), MapSet(m, Head(list)))

\* A parsed body {flags: [...]}; isArray is Array.isArray(data.flags).
BulkBody(isArray, list) == [kind |-> "object", isArray |-> isArray, flags |-> list]
InvalidBody == [kind |-> "invalid", isArray |-> FALSE, flags |-> <<>>]

\* Variant: the snapshot is still served at its expiresAt.
BulkFresh_inclusive(cfg, bulk, t) == cfg.enabled /\ bulk # <<>> /\ t <= bulk[1].expiresAt

\* The guard of the cached branch of getAllFlags.
BulkFresh(cfg, bulk, t) == cfg.enabled /\ bulk # <<>> /\ t < bulk[1].expiresAt

BulkRequest == Request("bulk", "fetch", EmptyString, Undefined, FALSE, EmptyString)

\* The fetch of a getAllFlags that preloadFlags awaits: the Map it
\* resolves to reaches no caller.
PreloadRequest == Request("preload", "fetch", EmptyString, Undefined, FALSE, EmptyString)

IsBulk(r) == r.kind \in {"bulk", "preload"}

\* A Map in the caller's hands: its entries, and whether its flag objects
\* are the very objects the snapshot's Map holds. new Map(m) makes a Map
\* of its own with the same value objects.
Handed(flags, sharesFlags) == [flags |-> flags, sharesFlags |-> sharesFlags]

\* The Map in the caller's hands once the snapshot has been replaced by
\* the Map of another response.
Unshared(held) ==
  IF held = <<>> THEN held ELSE <<Handed(held[1].flags, FALSE)>>

\* getAllFlags, and preloadFlags which awaits it.
getAllFlags(op) ==
  /\ op \in {"getAllFlags", "preloadFlags"}
  /\ IF BulkFresh(cacheConfig, bulkFlagsCache, now)
     THEN /\ last' = Event(op, "none", "flags", 0, {})
          /\ returned' = IF op = "getAllFlags"
                         THEN <<Handed(bulkFlagsCache[1].flags, TRUE)>>
                         ELSE returned
          /\ UNCHANGED <<hook, cacheConfig, cache, bulkFlagsCache, refreshTimer,
                         refreshInProgress, inflight, now>>
     ELSE /\ FreeSlots(inflight) >= 1
          /\ inflight' = Started(inflight, IF op = "getAllFlags" THEN BulkRequest
                                           ELSE PreloadRequest)
          /\ last' = Event(op, "none", "pending", 1, {})
          /\ UNCHANGED <<hook, cacheConfig, returned, cache, bulkFlagsCache, refreshTimer,
                         refreshInProgress, now>>

\* getAllFlags settles: it throws the named error, or returns the flags.
BulkEnds(r, input, result) ==
  /\ inflight' = Settled(inflight, r)
  /\ last' = Event("getAllFlags.return", input, result, 0, {})

BulkResponse(r, status) ==
  /\ IsBulk(r)
  /\ r.phase = "fetch"
  /\ IF StatusOk(status)
     THEN /\ inflight' = Started(Settled(inflight, r), [r EXCEPT !.phase = "body"])
          /\ last' = Event("response", "ok", "pending", 0, {})
     ELSE BulkEnds(r, ToString(status), "FlagVaultAPIError")
  /\ UNCHANGED <<hook, cacheConfig, returned, cache, bulkFlagsCache, refreshTimer,
                 refreshInProgress, now>>

BulkRejects(r, error) ==
  /\ IsBulk(r)
  /\ r.phase = "fetch"
  /\ error \in {"AbortError", "TypeError", "Error"}
  /\ BulkEnds(r, error,
              IF error \in {"AbortError", "TypeError"} THEN "FlagVaultNetworkError" ELSE error)
  /\ UNCHANGED <<hook, cacheConfig, returned, cache, bulkFlagsCache, refreshTimer,
                 refreshInProgress, now>>

\* Variant: the flags of the response are merged into the prior snapshot.
BulkBodyArrives_mergesPrior(r, body) ==
  /\ IsBulk(r)
  /\ r.phase = "body"
  /\ IF body.kind = "invalid"
     THEN /\ BulkEnds(r, "invalid", "SyntaxError")
          /\ UNCHANGED <<bulkFlagsCache, returned>>
     ELSE LET flags == IF body.isArray THEN FlagsMap(body.flags, <<>>) ELSE <<>>
              prior == IF bulkFlagsCache = <<>> THEN <<>> ELSE bulkFlagsCache[1].flags
          IN /\ BulkEnds(r, "flags", "flags")
             /\ bulkFlagsCache' =
                  IF cacheConfig.enabled
                  THEN <<[flags |-> FlagsMap(flags, prior), cachedAt |-> now,
                          expiresAt |-> now + cacheConfig.ttl * MsPerSecond]>>
                  ELSE bulkFlagsCache
             /\ returned' =
                  IF r.kind = "bulk" THEN <<Handed(flags, cacheConfig.enabled)>>
                  ELSE IF cacheConfig.enabled THEN Unshared(returned)
                  ELSE returned
  /\ UNCHANGED <<hook, cacheConfig, cache, refreshTimer, refreshInProgress, now>>

BulkBodyArrives(r, body) ==
  /\ IsBulk(r)
  /\ r.phase = "body"
  /\ IF body.kind = "invalid"
     THEN /\ BulkEnds(r, "invalid", "SyntaxError")
          /\ UNCHANGED <<bulkFlagsCache, returned>>
     ELSE LET flags == IF body.isArray THEN FlagsMap(body.flags, <<>>) ELSE <<>>
          IN /\ BulkEnds(r, "flags", "flags")
             /\ bulkFlagsCache' =
                  IF cacheConfig.enabled
                  THEN <<[flags |-> flags, cachedAt |-> now,
                          expiresAt |-> now + cacheConfig.ttl * MsPerSecond]>>
                  ELSE bulkFlagsCache
             /\ returned' =
                  IF r.kind = "bulk" THEN <<Handed(flags, cacheConfig.enabled)>>
                  ELSE IF cacheConfig.enabled THEN Unshared(returned)
                  ELSE returned
  /\ UNCHANGED <<hook, cacheConfig, cache, refreshTimer, refreshInProgress, now>>

\* ------------------------------------------------------------ the caller's Map
\* The caller empties the Map it was handed: map.clear().
CallerClears ==
  /\ returned # <<>>
  /\ returned[1].flags # <<>>
  /\ returned' = <<Handed(<<>>, returned[1].sharesFlags)>>
  /\ last' = Event("caller.clear", "none", "none", 0, {})
  /\ UNCHANGED <<hook, cacheConfig, cache, bulkFlagsCache, refreshTimer, refreshInProgress,
                 inflight, now>>

\* The entries of a Map with the flag object of the key switched off.
SwitchedOff(flags, key) ==
  [i \in 1..Len(flags) |->
     IF flags[i].key = key THEN [flags[i] EXCEPT !.isEnabled = FALSE] ELSE flags[i]]

\* The caller writes to a flag object of the Map it was handed:
\* map.get(key).isEnabled = false. The object is the one the snapshot's
\* Map holds when both Maps were built from the same objects.
CallerSwitchesOff(key) ==
  /\ returned # <<>>
  /\ MapHas(returned[1].flags, key)
  /\ MapGet(returned[1].flags, key).isEnabled
  /\ returned' = <<Handed(SwitchedOff(returned[1].flags, key), returned[1].sharesFlags)>>
  /\ bulkFlagsCache' =
       IF returned[1].sharesFlags /\ bulkFlagsCache # <<>>
       THEN <<[bulkFlagsCache[1] EXCEPT !.flags = SwitchedOff(@, key)]>>
       ELSE bulkFlagsCache
  /\ last' = Event("caller.write", "none", "none", 0, {})
  /\ UNCHANGED <<hook, cacheConfig, cache, refreshTimer, refreshInProgress, inflight, now>>

\* ------------------------------------------------------------ clearCache, destroy
clearCache ==
  /\ cache' = <<>>
  /\ last' = Event("clearCache", "none", "none", 0, MapKeys(cache))
  /\ UNCHANGED <<hook, cacheConfig, returned, bulkFlagsCache, refreshTimer, refreshInProgress, inflight, now>>

\* Variant: destroy clears the cache and leaves the timer set.
destroy_keepsTimer ==
  /\ cache' = <<>>
  /\ last' = Event("destroy", "none", "none", 0, MapKeys(cache))
  /\ UNCHANGED <<hook, cacheConfig, returned, refreshTimer, bulkFlagsCache, refreshInProgress,
                 inflight, now>>

destroy ==
  /\ refreshTimer' = FALSE
  /\ cache' = <<>>
  /\ last' = Event("destroy", "none", "none", 0, MapKeys(cache))
  /\ UNCHANGED <<hook, cacheConfig, returned, bulkFlagsCache, refreshInProgress, inflight, now>>

\* ------------------------------------------------------------ diagnostics
\* The loop of getCacheStats over this.cache.values().
RECURSIVE HitCount(_)
HitCount(c) ==
  IF c = <<>> THEN 0
  ELSE (IF Head(c).lastAccessed > Head(c).cachedAt THEN 1 ELSE 0) + HitCount(Tail(c))

RECURSIVE ExpiredCount(_, _)
ExpiredCount(c, t) ==
  IF c = <<>> THEN 0
  ELSE (IF t > Head(c).expiresAt THEN 1 ELSE 0) + ExpiredCount(Tail(c), t)

\* estimateMemoryUsage
RECURSIVE estimateMemoryUsage(_)
estimateMemoryUsage(c) ==
  IF c = <<>> THEN 0
  ELSE Len(Head(c).key) * 2 + 32 + estimateMemoryUsage(Tail(c))

\* Variant: every resident entry counts as hit.
CacheStats_countsEveryEntry(c, t) ==
  [size |-> Len(c),
   hitRate |-> IF Len(c) > 0 THEN <<Len(c), Len(c)>> ELSE <<0, 1>>,
   expiredEntries |-> ExpiredCount(c, t),
   memoryUsage |-> estimateMemoryUsage(c)]

\* The object getCacheStats returns. hitRate, the quotient
\* hitCount / this.cache.size, is kept exact as <<numerator, denominator>>;
\* the literal 0 of an empty cache is <<0, 1>>.
CacheStats(c, t) ==
  [size |-> Len(c),
   hitRate |-> IF Len(c) > 0 THEN <<HitCount(c), Len(c)>> ELSE <<0, 1>>,
   expiredEntries |-> ExpiredCount(c, t),
   memoryUsage |-> estimateMemoryUsage(c)]

getCacheStats ==
  /\ last' = Event("getCacheStats", "none", CacheStats(cache, now), 0, {})
  /\ UNCHANGED <<hook, cacheConfig, returned, cache, bulkFlagsCache, refreshTimer,
                 refreshInProgress, inflight, now>>

\* The object debugFlag returns; a field that is undefined is <<>>.
FlagDebugInfo(c, flagKey, t) ==
  IF MapHas(c, flagKey)
  THEN LET entry == MapGet(c, flagKey)
       IN [flagKey |-> flagKey, cached |-> TRUE, value |-> <<entry.value>>,
           cachedAt |-> <<entry.cachedAt>>, expiresAt |-> <<entry.expiresAt>>,
           timeUntilExpiry |-> <<entry.expiresAt - t>>,
           lastAccessed |-> <<entry.lastAccessed>>]
  ELSE [flagKey |-> flagKey, cached |-> FALSE, value |-> <<>>, cachedAt |-> <<>>,
        expiresAt |-> <<>>, timeUntilExpiry |-> <<>>, lastAccessed |-> <<>>]

\* Variant: debugFlag reads through getCachedValue.
debugFlag_readsThrough(flagKey) ==
  /\ cache' = getCachedValue(cache, flagKey, now).cache
  /\ last' = Record("debugFlag", flagKey, "undefined", Undefined, "none",
                    FlagDebugInfo(cache, flagKey, now), 0, {})
  /\ UNCHANGED <<hook, cacheConfig, returned, bulkFlagsCache, refreshTimer,
                 refreshInProgress, inflight, now>>

debugFlag(flagKey) ==
  /\ last' = Record("debugFlag", flagKey, "undefined", Undefined, "none",
                    FlagDebugInfo(cache, flagKey, now), 0, {})
  /\ UNCHANGED <<hook, cacheConfig, returned, cache, bulkFlagsCache, refreshTimer,
                 refreshInProgress, inflight, now>>

\* ------------------------------------------------------------ clock
Tick ==
  /\ now + TickMs <= MaxTicks * TickMs
  /\ now' = now + TickMs
  /\ last' = Event("tick", "none", "none", 0, {})
  /\ UNCHANGED <<hook, cacheConfig, returned, cache, bulkFlagsCache, refreshTimer, refreshInProgress, inflight>>

\* ------------------------------------------------------------ inputs
Statuses == {200, 401, 403, 404, 500}
Errors == {"AbortError", "TypeError", "Error"}
SingleBodies == {"enabled:true", "enabled:false", "noEnabledField", "invalid"}
DefaultArgs == {"undefined", "true", "false"}
FallbackBehaviors == {"default", "throw", "api"}

KeyF == <<"f">>
KeyG == <<"g">>
KeyH == <<"h">>
TargetU == <<"u">>
TargetV == <<"v">>
Malformed == <<LoneSurrogate>>

BulkBodies ==
  { InvalidBody,
    BulkBody(FALSE, <<>>),
    BulkBody(TRUE, <<Flag(KeyF, TRUE, <<20>>, <<<<"s">>>>)>>) }

\* ------------------------------------------------------------ steps
\* Calls of isEnabled with arguments from the given sets.
Calls(flagKeys, defaultArgs, options) ==
  \E k \in flagKeys, d \in defaultArgs, o \in options :
    IsEnabled(k, d, o) /\ UNCHANGED hook

\* A caller that awaits each isEnabled before the next.
NoCallPending == \A r \in Pending(inflight) : r.kind # "isEnabled"

\* The network's answers to the single-flag fetches in flight.
SingleSettles(statuses, errors, bodies) ==
  \/ \E r \in Pending(inflight), st \in statuses : SingleResponse(r, st) /\ UNCHANGED hook
  \/ \E r \in Pending(inflight), e \in errors : SingleRejects(r, e) /\ UNCHANGED hook
  \/ \E r \in Pending(inflight), b \in bodies : SingleBody(r, b) /\ UNCHANGED hook

\* getAllFlags / preloadFlags and the network's answers to them.
BulkSteps(ops, statuses, errors, bodies) ==
  \/ \E op \in ops : getAllFlags(op)
  \/ \E r \in Pending(inflight), st \in statuses : BulkResponse(r, st)
  \/ \E r \in Pending(inflight), e \in errors : BulkRejects(r, e)
  \/ \E r \in Pending(inflight), b \in bodies : BulkBodyArrives(r, b)

\* The network's answers to the bulk fetches in flight.
BulkSettles(statuses, errors, bodies) ==
  \/ \E r \in Pending(inflight), st \in statuses : BulkResponse(r, st)
  \/ \E r \in Pending(inflight), e \in errors : BulkRejects(r, e)
  \/ \E r \in Pending(inflight), b \in bodies : BulkBodyArrives(r, b)

\* ------------------------------------------------------------ specifications
\* Spec: every operation of the SDK, one awaiting caller, one flag key with
\* and without a target identifier. The bulk fetch is started by
\* preloadFlags, which hands no Map to the caller.
Init == Constructed(Config(TRUE, TtlSeconds, MaxCacheSize, 60, "default"))

Next ==
  \/ NoCallPending /\ Calls({KeyF, EmptyString}, {"undefined"}, {NoOptions, Options(TargetU)})
  \/ SingleSettles({200, 404}, {"AbortError"}, {"enabled:true", "invalid"})
  \/ TimerFires
  \/ BulkSteps({"preloadFlags"}, {200, 500}, {"AbortError"}, BulkBodies)
  \/ clearCache
  \/ destroy
  \/ Tick

Spec == Init /\ [][Next]_vars

\* SpecFallback: every fallback policy, caching on and off, every outcome
\* of the single-flag fetch and every form of a missing key, one flag key.
InitFallback ==
  \E enabled \in BOOLEAN, fb \in FallbackBehaviors :
    Constructed(Config(enabled, TtlSeconds, MaxCacheSize, 60, fb))

NextFallback ==
  \/ NoCallPending /\ Calls({KeyF, EmptyString, Null, Undefined}, DefaultArgs,
                            {NoOptions, Options(Malformed)})
  \/ SingleSettles(Statuses, Errors, SingleBodies)
  \/ TimerFires
  \/ clearCache
  \/ destroy
  \/ Tick

SpecFallback == InitFallback /\ [][NextFallback]_vars

\* SpecLru: three flag keys competing for a cache of 1..MaxCacheSize
\* entries, callers that do not await each other, and the refresher.
InitLru ==
  \E m \in 1..MaxCacheSize : Constructed(Config(TRUE, TtlSeconds, m, 60, "default"))

NextLru ==
  \/ Calls({KeyF, KeyG, KeyH}, {"undefined"}, {NoOptions})
  \/ SingleSettles({200, 404}, {"AbortError"}, {"enabled:true", "invalid"})
  \/ TimerFires
  \/ clearCache
  \/ destroy
  \/ Tick

SpecLru == InitLru /\ [][NextLru]_vars

\* SpecKeys: one flag key evaluated with no target identifier, with an
\* empty one and with two distinct ones.
NextKeys ==
  \/ NoCallPending /\ Calls({KeyF}, {"undefined"},
                            {NoOptions, Options(EmptyString), Options(TargetU), Context(TargetV)})
  \/ SingleSettles({200, 404}, {"AbortError"}, {"enabled:true", "enabled:false", "invalid"})
  \/ TimerFires
  \/ clearCache
  \/ destroy
  \/ Tick

SpecKeys == InitLru /\ [][NextKeys]_vars

\* SpecParam: every fallback policy, caching on and off, and every form of
\* a missing key, called while the caches, the refresher and the fetches
\* are in any state.
NextParam ==
  \/ NoCallPending /\ Calls({KeyF, EmptyString, Null, Undefined}, {"undefined"}, {NoOptions})
  \/ SingleSettles({200, 500}, {"TypeError"}, {"enabled:true"})
  \/ TimerFires
  \/ BulkSteps({"preloadFlags"}, {200, 500}, {"AbortError"},
               {InvalidBody, BulkBody(TRUE, <<Flag(KeyG, TRUE, <<>>, <<>>)>>)})
  \/ clearCache
  \/ destroy
  \/ Tick

SpecParam == InitFallback /\ [][NextParam]_vars

\* SpecBulk: getAllFlags and preloadFlags with every outcome of the bulk
\* fetch, callers that do not await each other, a caller that changes the
\* Map it was handed, and isEnabled for a key of the snapshot.
InitBulk ==
  \E enabled \in BOOLEAN : Constructed(Config(enabled, TtlSeconds, MaxCacheSize, 60, "default"))

BulkBodiesTwo ==
  { InvalidBody,
    BulkBody(FALSE, <<>>),
    BulkBody(TRUE, <<Flag(KeyF, TRUE, <<>>, <<>>)>>),
    BulkBody(TRUE, <<Flag(KeyG, TRUE, <<>>, <<>>)>>) }

NextBulk ==
  \/ NoCallPending /\ Calls({KeyF}, {"undefined"}, {NoOptions})
  \/ SingleSettles({200}, {"AbortError"}, {"enabled:true"})
  \/ BulkSteps({"getAllFlags", "preloadFlags"}, Statuses, Errors, BulkBodiesTwo)
  \/ CallerClears
  \/ CallerSwitchesOff(KeyF)
  \/ destroy
  \/ Tick

SpecBulk == InitBulk /\ [][NextBulk]_vars

\* SpecRollout: the SDK once preloadFlags has stored, at time 0, a snapshot
\* of one flag of any shape (on or off, with and without rolloutPercentage
\* and rolloutSeed), the per-flag cache being empty or holding the flag;
\* then isEnabled with no target identifier, an empty one and two distinct
\* ones, at several times.
RolloutPercentages == {<<>>, <<0>>, <<20>>, <<100>>}
RolloutSeeds == {<<>>, <<<<"s">>>>, <<<<"a">>>>}

RolloutFlags ==
  {Flag(KeyF, on, pct, seed) : on \in BOOLEAN, pct \in RolloutPercentages, seed \in RolloutSeeds}

InitRollout ==
  \E flag \in RolloutFlags, cached \in BOOLEAN :
    LET cfg == Config(TRUE, TtlSeconds, MaxCacheSize, 60, "default")
    IN /\ cacheConfig = cfg
       /\ cache = IF cached THEN setCachedValue(<<>>, KeyF, TRUE, 0, cfg) ELSE <<>>
       /\ bulkFlagsCache = <<[flags |-> FlagsMap(<<flag>>, <<>>), cachedAt |-> 0,
                              expiresAt |-> cfg.ttl * MsPerSecond]>>
       /\ refreshTimer = TRUE
       /\ refreshInProgress = FALSE
       /\ inflight = EmptyBag
       /\ now = 0
       /\ returned = <<>>
       /\ hook = NoHook
       /\ last = Event("getAllFlags.return", "flags", "flags", 0, {})

NextRollout ==
  \/ NoCallPending /\ Calls({KeyF}, {"undefined"},
                            {NoOptions, Options(EmptyString), Options(TargetU), Context(TargetV)})
  \/ SingleSettles({200}, {"AbortError"}, {"enabled:true"})
  \/ clearCache
  \/ Tick

SpecRollout == InitRollout /\ [][NextRollout]_vars

\* SpecDisabled: caching on and off, calls with and without a target
\* identifier (one of them not encodable), getAllFlags, the timer and the
\* clock.
InitDisabled ==
  \E enabled \in BOOLEAN, fb \in {"default", "throw"} :
    Constructed(Config(enabled, TtlSeconds, MaxCacheSize, 60, fb))

NextDisabled ==
  \/ NoCallPending /\ Calls({KeyF}, {"undefined", "true"}, {NoOptions, Options(Malformed)})
  \/ SingleSettles({200, 500}, {"AbortError"}, {"enabled:true"})
  \/ TimerFires
  \/ BulkSteps({"getAllFlags"}, {200, 500}, {"AbortError"},
               {InvalidBody, BulkBody(TRUE, <<Flag(KeyF, TRUE, <<>>, <<>>)>>)})
  \/ clearCache
  \/ destroy
  \/ Tick

SpecDisabled == InitDisabled /\ [][NextDisabled]_vars

\* SpecRefresh: the refresher over entries stored with and without a
\* target identifier, for a plain flag key and for one that contains ':'.
\* No call of this specification builds the composite key of one flag out
\* of the other, so every resident key tells how it was stored.
KeyColon == <<"g", ":", "a">>
RefreshKeys == {KeyF, KeyColon}

NextRefresh ==
  \/ NoCallPending /\ Calls(RefreshKeys, {"undefined"}, {NoOptions, Options(TargetU)})
  \/ SingleSettles({200, 500}, {"AbortError"}, {"enabled:false"})
  \/ TimerFires
  \/ clearCache
  \/ destroy
  \/ Tick

SpecRefresh == Init /\ [][NextRefresh]_vars

\* The network's answers to the re-fetches of the refresher.
RefreshSettles(statuses, errors, bodies) ==
  \E r \in {q \in Pending(inflight) : q.kind = "refresh"} :
    \/ \E st \in statuses : SingleResponse(r, st) /\ UNCHANGED hook
    \/ \E e \in errors : SingleRejects(r, e) /\ UNCHANGED hook
    \/ \E b \in bodies : SingleBody(r, b) /\ UNCHANGED hook

\* SpecLive: two flag keys, the refresher and every operation around it,
\* with each re-fetch of the refresher settling in the end (its response,
\* then its body, or a failure).
NextLive ==
  \/ NoCallPending /\ Calls({KeyF, KeyG}, {"undefined"}, {NoOptions})
  \/ SingleSettles({200, 500}, {"AbortError"}, {"enabled:true", "invalid"})
  \/ TimerFires
  \/ clearCache
  \/ destroy
  \/ Tick

SpecLive ==
  /\ Init
  /\ [][NextLive]_vars
  /\ WF_vars(RefreshSettles({200, 500}, {"AbortError"}, {"enabled:true", "invalid"}))

\* The fetches of one kind in flight, and those still awaiting fetch().
InFlightOf(kinds) == {r \in Pending(inflight) : r.kind \in kinds}
AwaitingResponse(kinds) == {r \in InFlightOf(kinds) : r.phase = "fetch"}

\* await fetch(url, {signal}) settles for a fetch of the given kinds: with a
\* response, or with a rejection, of which the AbortError of
\* setTimeout(() => controller.abort(), this.timeout) is one.
FetchEnds(kinds, statuses, errors) ==
  \E r \in AwaitingResponse(kinds) :
    \/ \E st \in statuses : SingleResponse(r, st) /\ UNCHANGED hook
    \/ \E e \in errors : SingleRejects(r, e) /\ UNCHANGED hook
    \/ \E st \in statuses : BulkResponse(r, st)
    \/ \E e \in errors : BulkRejects(r, e)

\* SpecTimeout: callers that await isEnabled and getAllFlags, and the
\* refresher. The timeout set before fetch() makes every fetch() settle;
\* it is cleared as soon as fetch() resolves, so nothing makes
\* response.json() settle.
NextTimeout ==
  \/ NoCallPending /\ Calls({KeyF}, {"undefined"}, {NoOptions})
  \/ SingleSettles({200, 500}, {"AbortError"}, {"enabled:true", "invalid"})
  \/ TimerFires
  \/ InFlightOf({"bulk", "preload"}) = {} /\ getAllFlags("getAllFlags")
  \/ BulkSettles({200, 500}, {"AbortError"}, {InvalidBody, BulkBody(TRUE, <<>>)})
  \/ Tick

SpecTimeout ==
  /\ Init
  /\ [][NextTimeout]_vars
  /\ WF_vars(FetchEnds({"isEnabled"}, {200, 500}, {"AbortError"}))
  /\ WF_vars(FetchEnds({"refresh"}, {200, 500}, {"AbortError"}))
  /\ WF_vars(FetchEnds({"bulk", "preload"}, {200, 500}, {"AbortError"}))

\* SpecLifecycle: caching on and off, with and without a refresh interval;
\* destroy at any moment and any number of times.
RefreshIntervals == {0, 60}

InitLifecycle ==
  \E enabled \in BOOLEAN, interval \in RefreshIntervals :
    Constructed(Config(enabled, TtlSeconds, MaxCacheSize, interval, "default"))

NextLifecycle ==
  \/ NoCallPending /\ Calls({KeyF, KeyG}, {"undefined"}, {NoOptions})
  \/ SingleSettles({200, 500}, {"AbortError"}, {"enabled:true"})
  \/ TimerFires
  \/ clearCache
  \/ destroy
  \/ Tick

SpecLifecycle == InitLifecycle /\ [][NextLifecycle]_vars

\* SpecTeardown: calls, a bulk fetch and the refresher up to destroy, and
\* no call of isEnabled or getAllFlags after it: the constructor of Init
\* sets the timer and only destroy clears it, so the timer is set exactly
\* until destroy. The fetches in flight at destroy settle afterwards.
NextTeardown ==
  \/ refreshTimer /\ NoCallPending /\ Calls({KeyF, KeyG}, {"undefined"}, {NoOptions})
  \/ SingleSettles({200, 500}, {"AbortError"}, {"enabled:true"})
  \/ TimerFires
  \/ refreshTimer /\ getAllFlags("getAllFlags")
  \/ BulkSettles({200, 500}, {"AbortError"},
                 {InvalidBody, BulkBody(TRUE, <<Flag(KeyF, TRUE, <<>>, <<>>)>>)})
  \/ destroy
  \/ Tick

SpecTeardown == Init /\ [][NextTeardown]_vars

\* SpecRace: callers that do not await each other evaluate one flag, with
\* and without a target identifier, while the network answers true or
\* false in any order.
RaceSlots == {KeyF, KeyF \o <<":">> \o TargetU}

NextRace ==
  \/ Calls({KeyF}, {"undefined"}, {NoOptions, Options(TargetU)})
  \/ SingleSettles({200, 500}, {"AbortError"}, {"enabled:true", "enabled:false"})
  \/ TimerFires
  \/ clearCache
  \/ Tick

SpecRace == Init /\ [][NextRace]_vars

\* SpecStats: the diagnostics called in any state of the per-flag cache
\* (empty, written, read since written, expired and not yet removed), of
\* the snapshot and of the refresher.
NextStats ==
  \/ NoCallPending /\ Calls({KeyF, KeyG}, {"undefined"}, {NoOptions})
  \/ SingleSettles({200, 500}, {"AbortError"}, {"enabled:true"})
  \/ TimerFires
  \/ InFlightOf({"bulk", "preload"}) = {} /\ getAllFlags("preloadFlags")
  \/ BulkSettles({200}, {"AbortError"}, {BulkBody(TRUE, <<Flag(KeyH, TRUE, <<>>, <<>>)>>)})
  \/ getCacheStats
  \/ \E k \in {KeyF, KeyG, KeyH} : debugFlag(k)
  \/ clearCache
  \/ Tick

SpecStats == Init /\ [][NextStats]_vars

\* ------------------------------------------------------------ reading a step
\* The step is a call of isEnabled (its arguments are in last').
IsCall == last'.op = "isEnabled"

\* The step is the return of an isEnabled call that awaited a fetch, or the
\* end of one of the refresher's fetches.
IsReturn == last'.op = "isEnabled.return"
IsRefreshEnd == last'.op = "refresh.settled"

\* The request whose fetch the step settled.
SettledRequest == CHOOSE r \in Pending(inflight) : inflight' = Settled(inflight, r)

\* The fetch ended in one of the failure outcomes / with a parseable 2xx body.
ParsedInputs == {"enabled:true", "enabled:false", "noEnabledField"}
FailureInputs == {"401", "403", "404", "500", "AbortError", "TypeError", "Error", "invalid"}

\* A flag key the caller did supply; a target identifier the caller did supply.
KeyGiven(k) == k \notin {EmptyString, Null, Undefined}
TargetGiven(t) == t \notin {EmptyString, Null, Undefined}

\* The snapshot holds, unexpired, a flag of key k.
FreshBulkHas(k) ==
  /\ bulkFlagsCache # <<>>
  /\ now < bulkFlagsCache[1].expiresAt
  /\ \E i \in 1..Len(bulkFlagsCache[1].flags) : bulkFlagsCache[1].flags[i].key = k

FreshBulkFlag(k) ==
  bulkFlagsCache[1].flags[CHOOSE i \in 1..Len(bulkFlagsCache[1].flags) :
                            bulkFlagsCache[1].flags[i].key = k]

\* The per-flag cache slot of a call.
SlotOf(k, t) == IF TargetGiven(t) THEN k \o <<":">> \o t ELSE k

Resident(c, slot) == \E i \in 1..Len(c) : c[i].key = slot
EntryOf(c, slot) == c[CHOOSE i \in 1..Len(c) : c[i].key = slot]

\* The target identifier is one encodeURIComponent accepts.
NotMalformed(t) == ~Includes(t, LoneSurrogate)

\* The step left the entry of the slot as it was: absent, or the same entry.
Same(slot) ==
  /\ Resident(cache, slot) <=> Resident(cache', slot)
  /\ Resident(cache, slot) => EntryOf(cache', slot) = EntryOf(cache, slot)

\* The step wrote a fetched value into the per-flag cache.
IsPut ==
  /\ IsReturn \/ IsRefreshEnd
  /\ last'.input \in ParsedInputs
  /\ IsRefreshEnd \/ cacheConfig.enabled

\* The slot a put writes.
PutSlot == SlotOf(SettledRequest.flagKey, SettledRequest.targetId)

\* ------------------------------------------------------------ C1
\* C1: with caching enabled, a call of isEnabled for a key the unexpired
\* bulk snapshot contains returns the rollout evaluator's result for the
\* snapshot's flag, sends no request, and leaves the per-flag cache as it
\* was (no read refreshes lastAccessed or removes an entry, no write).
C1_BulkPrecedence ==
  [][ (/\ IsCall
       /\ KeyGiven(last'.flagKey)
       /\ cacheConfig.enabled
       /\ FreshBulkHas(last'.flagKey))
      => /\ \E rnd \in RandomIds :
              last'.result =
                BoolStr(evaluateFlag(FreshBulkFlag(last'.flagKey), last'.targetId, rnd))
         /\ last'.issued = 0
         /\ inflight' = inflight
         /\ cache' = cache ]_vars

\* A call answered "false" from the snapshot while the per-flag cache holds
\* an entry for the same slot.
C1_Witness ==
  /\ last.op = "isEnabled"
  /\ KeyGiven(last.flagKey)
  /\ cacheConfig.enabled
  /\ FreshBulkHas(last.flagKey)
  /\ last.result = "false"
  /\ last.issued = 0
  /\ Resident(cache, SlotOf(last.flagKey, last.targetId))
  /\ EntryOf(cache, SlotOf(last.flagKey, last.targetId)).value = TRUE

\* ------------------------------------------------------------ C2
\* C2: with caching enabled, the return of an isEnabled call whose fetch
\* gave a 2xx response with a parseable body leaves the fetched value in
\* the call's slot, expiring ttl seconds later; and every call that finds
\* no usable bulk entry and finds its slot resident with now <= expiresAt
\* returns the entry's value and sends no request.
C2_CachedValueServed ==
  [][ /\ (IsReturn /\ last'.input \in ParsedInputs /\ cacheConfig.enabled)
         => /\ last'.result = BoolStr(last'.input = "enabled:true")
            /\ Resident(cache', PutSlot)
            /\ EntryOf(cache', PutSlot).value = (last'.input = "enabled:true")
            /\ EntryOf(cache', PutSlot).expiresAt = now + cacheConfig.ttl * MsPerSecond
      /\ (/\ IsCall
          /\ KeyGiven(last'.flagKey)
          /\ cacheConfig.enabled
          /\ ~FreshBulkHas(last'.flagKey)
          /\ Resident(cache, SlotOf(last'.flagKey, last'.targetId))
          /\ now <= EntryOf(cache, SlotOf(last'.flagKey, last'.targetId)).expiresAt)
         => /\ last'.result =
                 BoolStr(EntryOf(cache, SlotOf(last'.flagKey, last'.targetId)).value)
            /\ last'.issued = 0
            /\ inflight' = inflight ]_vars

\* A later call, at the very instant of expiry, served from the entry an
\* earlier call's fetch left.
C2_Witness ==
  /\ last.op = "isEnabled"
  /\ last.result = "true"
  /\ last.issued = 0
  /\ ~FreshBulkHas(last.flagKey)
  /\ Resident(cache, SlotOf(last.flagKey, last.targetId))
  /\ EntryOf(cache, SlotOf(last.flagKey, last.targetId)).expiresAt = now
  /\ EntryOf(cache, SlotOf(last.flagKey, last.targetId)).lastAccessed = now

\* ------------------------------------------------------------ C3
\* C3: a single-flag fetch that ends in a failure (401, 403, 404, another
\* non-2xx status, an unparseable body, the timeout's abort, a transport
\* failure), started by isEnabled or by the refresher, leaves the per-flag
\* cache exactly as it was; and a call of isEnabled that finds neither a
\* usable bulk entry nor an unexpired entry in its slot sends a request.
C3_NoNegativeCaching ==
  [][ /\ ((IsReturn \/ IsRefreshEnd) /\ last'.input \in FailureInputs)
         => cache' = cache
      /\ (/\ IsCall
          /\ KeyGiven(last'.flagKey)
          /\ NotMalformed(last'.targetId)
          /\ ~(cacheConfig.enabled /\ FreshBulkHas(last'.flagKey))
          /\ ~(/\ cacheConfig.enabled
               /\ Resident(cache, SlotOf(last'.flagKey, last'.targetId))
               /\ now <= EntryOf(cache, SlotOf(last'.flagKey, last'.targetId)).expiresAt))
         => /\ last'.result = "pending"
            /\ last'.issued = 1
            /\ BagCardinality(inflight') = BagCardinality(inflight) + 1 ]_vars

\* A call's fetch has failed with caching enabled and the cache holds
\* nothing for the key.
C3_Witness ==
  /\ last.op = "isEnabled.return"
  /\ last.input \in FailureInputs
  /\ cacheConfig.enabled
  /\ ~Resident(cache, KeyF)

C5_ThrowPolicyRaises ==
  [][ (/\ cacheConfig.fallbackBehavior = "throw"
       /\ IsReturn
       /\ last'.input \in FailureInputs)
      => last'.result \notin {"true", "false"} ]_vars

\* ------------------------------------------------------------ C6
\* C6: under every fallback policy and in every state of the caches, the
\* refresher and the fetches, a call of isEnabled with an empty, null or
\* undefined flagKey fails with the parameter error, sends no request and
\* leaves the per-flag cache, the bulk snapshot, the fetches in flight and the
\* refresher's timer and flag as they were.
C6_ParameterError ==
  [][ (IsCall /\ ~KeyGiven(last'.flagKey))
      => /\ last'.result = "ParameterError"
         /\ last'.issued = 0
         /\ last'.removed = {}
         /\ UNCHANGED <<cache, bulkFlagsCache, inflight, refreshTimer, refreshInProgress>> ]_vars

\* A null key rejected under the 'throw' policy while both caches are
\* populated and a refresh is in flight.
C6_Witness ==
  /\ last.op = "isEnabled"
  /\ last.flagKey = Null
  /\ last.result = "ParameterError"
  /\ cacheConfig.fallbackBehavior = "throw"
  /\ cache # <<>>
  /\ bulkFlagsCache # <<>>
  /\ refreshInProgress
  /\ inflight # EmptyBag

\* ------------------------------------------------------------ C7
\* C7: for every configured maxSize >= 1, in every reachable state the
\* per-flag cache holds at most maxSize entries.
C7_SizeBound == Len(cache) <= cacheConfig.maxSize

\* A write has evicted an entry and left the cache full.
C7_Witness ==
  /\ last.op \in {"isEnabled.return", "refresh.settled"}
  /\ last.removed # {}
  /\ Len(cache) = cacheConfig.maxSize
  /\ cacheConfig.maxSize = MaxCacheSize

\* ------------------------------------------------------------ C8
\* C8: a put of a key that is not resident into a cache holding exactly
\* maxSize entries removes exactly one entry, the first in insertion order
\* among those of least lastAccessed, keeps every other entry as it was and
\* in its order, and adds the new entry last.
C8_LruVictim ==
  [][ (/\ IsPut
       /\ ~Resident(cache, PutSlot)
       /\ Len(cache) = cacheConfig.maxSize)
      => \E v \in 1..Len(cache) :
           /\ \A j \in 1..Len(cache) : cache[v].lastAccessed <= cache[j].lastAccessed
           /\ \A j \in 1..(v - 1) : cache[v].lastAccessed < cache[j].lastAccessed
           /\ Len(cache') = Len(cache)
           /\ SubSeq(cache', 1, Len(cache) - 1) =
                SubSeq(cache, 1, v - 1) \o SubSeq(cache, v + 1, Len(cache))
           /\ cache'[Len(cache)].key = PutSlot
           /\ last'.removed = {cache[v].key} ]_vars

\* A put has evicted an entry while an older entry, read by a hit since it
\* was written, stayed resident.
C8_Witness ==
  /\ last.op = "isEnabled.return"
  /\ last.removed # {}
  /\ Len(cache) = 2
  /\ cacheConfig.maxSize = 2
  /\ cache[1].lastAccessed > cache[1].cachedAt
  /\ cache[2].cachedAt = now
  /\ cache[1].cachedAt < cache[2].cachedAt

\* ------------------------------------------------------------ C9
\* C9: a call of isEnabled that reads the per-flag cache (caching enabled,
\* no usable bulk entry) and finds its slot resident returns the entry's
\* value and sets its lastAccessed to now when now <= expiresAt; when
\* now > expiresAt it removes the entry on that read and goes on to the
\* network instead of returning the entry's value.
C9_TtlExpiry ==
  [][ (/\ IsCall
       /\ KeyGiven(last'.flagKey)
       /\ cacheConfig.enabled
       /\ ~FreshBulkHas(last'.flagKey)
       /\ Resident(cache, SlotOf(last'.flagKey, last'.targetId)))
      => LET slot == SlotOf(last'.flagKey, last'.targetId)
             entry == EntryOf(cache, slot)
         IN IF now <= entry.expiresAt
            THEN /\ last'.result = BoolStr(entry.value)
                 /\ Resident(cache', slot)
                 /\ EntryOf(cache', slot) = [entry EXCEPT !.lastAccessed = now]
                 /\ last'.removed = {}
            ELSE /\ ~Resident(cache', slot)
                 /\ last'.removed = {slot}
                 /\ NotMalformed(last'.targetId)
                      => last'.result = "pending" /\ last'.issued = 1 ]_vars

\* A call has found its entry expired, removed it and sent a request.
C9_Witness ==
  /\ last.op = "isEnabled"
  /\ last.removed = {SlotOf(last.flagKey, last.targetId)}
  /\ last.result = "pending"
  /\ TargetGiven(last.targetId)

\* ------------------------------------------------------------ C10
\* The target identifiers of the evaluations compared: none and two
\* distinct ones.
TargetIds == {Undefined, TargetU, TargetV}

\* The target identifier with the empty string read as none.
TargetOf(t) == IF TargetGiven(t) THEN t ELSE Undefined

\* The slots of one flag key under distinct target identifiers are distinct.
SlotsDistinct ==
  \A t1 \in TargetIds, t2 \in TargetIds :
    t1 # t2 => CacheKeyOf(KeyF, t1) # CacheKeyOf(KeyF, t2)

\* The step removed the entry of the slot as the least recently used one of
\* a full cache.
EvictedWhenFull(slot) ==
  /\ Resident(cache, slot)
  /\ ~Resident(cache', slot)
  /\ Len(cache) >= cacheConfig.maxSize
  /\ \A j \in 1..Len(cache) : EntryOf(cache, slot).lastAccessed <= cache[j].lastAccessed

\* A call reads its own slot only, and is served a cached value only from it.
ReadIsolated ==
  (IsCall /\ KeyGiven(last'.flagKey) /\ ~FreshBulkHas(last'.flagKey)
          /\ NotMalformed(last'.targetId))
  => /\ \A t2 \in TargetIds \ {TargetOf(last'.targetId)} : Same(SlotOf(last'.flagKey, t2))
     /\ IF /\ Resident(cache, SlotOf(last'.flagKey, last'.targetId))
           /\ now <= EntryOf(cache, SlotOf(last'.flagKey, last'.targetId)).expiresAt
        THEN last'.result =
               BoolStr(EntryOf(cache, SlotOf(last'.flagKey, last'.targetId)).value)
        ELSE last'.result = "pending"

\* C10, as stated: for one flag key, evaluations with distinct target
\* identifiers, or with one and with none, use distinct slots; a write for
\* one never creates, overwrites or changes the entry of the other; and a
\* call is served a cached value only from the slot of its own target.
C10_StrictIsolation ==
  [][ /\ SlotsDistinct
      /\ IsPut => \A t2 \in TargetIds \ {TargetOf(SettledRequest.targetId)} :
                    Same(SlotOf(SettledRequest.flagKey, t2))
      /\ ReadIsolated ]_vars

\* C10, amended: as above, but a write made while the cache holds maxSize
\* entries may remove the other's entry when it is the least recently used
\* one; it never creates or overwrites it.
C10_IsolationUpToEviction ==
  [][ /\ SlotsDistinct
      /\ IsPut => \A t2 \in TargetIds \ {TargetOf(SettledRequest.targetId)} :
                    \/ Same(SlotOf(SettledRequest.flagKey, t2))
                    \/ EvictedWhenFull(SlotOf(SettledRequest.flagKey, t2))
      /\ ReadIsolated ]_vars

\* The entries of two targets of one flag are resident with different
\* values, and a call for one of them has been served its own.
C10_Witness ==
  /\ last.op = "isEnabled"
  /\ last.targetId = TargetU
  /\ Resident(cache, SlotOf(KeyF, TargetU))
  /\ Resident(cache, SlotOf(KeyF, TargetV))
  /\ EntryOf(cache, SlotOf(KeyF, TargetU)).value # EntryOf(cache, SlotOf(KeyF, TargetV)).value
  /\ last.result = BoolStr(EntryOf(cache, SlotOf(KeyF, TargetU)).value)
  /\ last.issued = 0

\* ------------------------------------------------------------ C11
\* C11: from any state, destroy() leaves the per-flag cache empty and no
\* bulk snapshot held, so that no later isEnabled is answered from a
\* snapshot taken before it.
C11_DestroyClearsBoth ==
  [][ last'.op = "destroy" => (cache' = <<>> /\ bulkFlagsCache' = <<>>) ]_vars

\* ------------------------------------------------------------ C12
\* The step is a call of isEnabled answered by the rollout evaluator: the
\* unexpired snapshot holds the key.
IsBulkCall ==
  /\ IsCall
  /\ KeyGiven(last'.flagKey)
  /\ cacheConfig.enabled
  /\ FreshBulkHas(last'.flagKey)

\* C12: for every target identifier, given or not, the rollout evaluator
\* returns false for a flag that is off whatever its rolloutPercentage, and,
\* for a flag that is on and has a seed, false at rolloutPercentage 0 and
\* true at rolloutPercentage 100.
C12_RolloutBoundaries ==
  [][ IsBulkCall
      => LET flag == FreshBulkFlag(last'.flagKey)
         IN /\ ~flag.isEnabled => last'.result = "false"
            /\ (flag.isEnabled /\ flag.rolloutSeed # <<>> /\ flag.rolloutPercentage = <<0>>)
                 => last'.result = "false"
            /\ (flag.isEnabled /\ flag.rolloutSeed # <<>> /\ flag.rolloutPercentage = <<100>>)
                 => last'.result = "true" ]_vars

\* A flag that is on, at 0%, has been evaluated to false for a call
\* without target identifier.
C12_Witness ==
  /\ last.op = "isEnabled"
  /\ FreshBulkHas(last.flagKey)
  /\ FreshBulkFlag(last.flagKey).isEnabled
  /\ FreshBulkFlag(last.flagKey).rolloutPercentage = <<0>>
  /\ FreshBulkFlag(last.flagKey).rolloutSeed # <<>>
  /\ ~TargetGiven(last.targetId)
  /\ last.result = "false"

\* ------------------------------------------------------------ C13
\* C13: with a target identifier given, the result of the rollout evaluator
\* is the same whatever random identifier the call draws, in every state
\* (clock, per-flag cache, earlier calls) in which the call is made: it is a
\* function of the flag's metadata and the target identifier alone.
C13_RolloutDeterminism ==
  [][ (IsBulkCall /\ TargetGiven(last'.targetId))
      => \A rnd \in RandomIds :
           last'.result =
             BoolStr(evaluateFlag(FreshBulkFlag(last'.flagKey), last'.targetId, rnd)) ]_vars

\* A 20% flag has been evaluated for target u, later than the snapshot was
\* taken and with the per-flag cache holding an entry; without a target
\* identifier the same flag evaluates to true or false by the random draw.
C13_Witness ==
  /\ last.op = "isEnabled"
  /\ last.targetId = TargetU
  /\ FreshBulkHas(last.flagKey)
  /\ FreshBulkFlag(last.flagKey).isEnabled
  /\ FreshBulkFlag(last.flagKey).rolloutPercentage = <<20>>
  /\ FreshBulkFlag(last.flagKey).rolloutSeed # <<>>
  /\ \E r1 \in RandomIds, r2 \in RandomIds :
       evaluateFlag(FreshBulkFlag(last.flagKey), Undefined, r1)
         # evaluateFlag(FreshBulkFlag(last.flagKey), Undefined, r2)
  /\ now > bulkFlagsCache[1].cachedAt
  /\ cache # <<>>

\* ------------------------------------------------------------ C14
\* bucket = (byte0 * 256 + byte1) mod 10000 of the digest of
\* 'targetId-key-seed'.
ReferenceBucket(id, key, seed) ==
  LET digest == Digest(id \o <<"-">> \o key \o <<"-">> \o seed)
  IN (digest[1] * 256 + digest[2]) % 10000

\* The reference result of the evaluator for the identifier hashed.
Reference(flag, id) ==
  IF ~flag.isEnabled THEN FALSE
  ELSE IF flag.rolloutPercentage = <<>> \/ flag.rolloutSeed = <<>> THEN flag.isEnabled
  ELSE ReferenceBucket(id, flag.key, flag.rolloutSeed[1]) < flag.rolloutPercentage[1] * 100

\* C14: the evaluator's result is the reference: false for a flag that is
\* off; the flag's isEnabled when rolloutPercentage or rolloutSeed is
\* absent; else bucket < rolloutPercentage * 100, the bucket being in
\* 0..9999 and taken from the target identifier, or from the random
\* identifier when none is given.
C14_RolloutReference ==
  [][ IsBulkCall
      => LET flag == FreshBulkFlag(last'.flagKey)
             ids == IF TargetGiven(last'.targetId) THEN {last'.targetId} ELSE RandomIds
         IN /\ \E id \in ids : last'.result = BoolStr(Reference(flag, id))
            /\ flag.rolloutSeed # <<>>
                 => \A id \in ids :
                      ReferenceBucket(id, flag.key, flag.rolloutSeed[1]) \in 0..9999 ]_vars

\* A flag that is on with rolloutPercentage 0 and no seed has been
\* evaluated to true: the absence of the seed alone suffices.
C14_Witness ==
  /\ last.op = "isEnabled"
  /\ FreshBulkHas(last.flagKey)
  /\ FreshBulkFlag(last.flagKey).isEnabled
  /\ FreshBulkFlag(last.flagKey).rolloutPercentage = <<0>>
  /\ FreshBulkFlag(last.flagKey).rolloutSeed = <<>>
  /\ last.result = "true"

\* ------------------------------------------------------------ C15
\* The step is the end of a getAllFlags call that awaited its fetch.
IsBulkReturn == last'.op = "getAllFlags.return"

\* The failures of the bulk fetch: a non-2xx status, the timeout's abort,
\* a transport failure, an unparseable body.
BulkFailureInputs == {"401", "403", "404", "500", "AbortError", "TypeError", "invalid"}

\* C15: a getAllFlags call whose fetch fails in any of these ways throws a
\* FlagVaultNetworkError or a FlagVaultAPIError; it does not return a Map.
C15_BulkFailureStructured ==
  [][ (IsBulkReturn /\ last'.input \in BulkFailureInputs)
      => last'.result \in {"FlagVaultNetworkError", "FlagVaultAPIError"} ]_vars

\* ------------------------------------------------------------ C16
\* The Maps a 2xx response with a parseable body can give.
ResponseMaps ==
  {IF b.isArray THEN FlagsMap(b.flags, <<>>) ELSE <<>> : b \in BulkBodiesTwo \ {InvalidBody}}

\* A snapshot is complete: its flags under distinct keys, and both times.
Complete(snapshot) ==
  /\ DOMAIN snapshot = {"flags", "cachedAt", "expiresAt"}
  /\ \A i \in 1..Len(snapshot.flags), j \in 1..Len(snapshot.flags) :
       snapshot.flags[i].key = snapshot.flags[j].key => i = j
  /\ snapshot.expiresAt = snapshot.cachedAt + cacheConfig.ttl * MsPerSecond

\* A getAllFlags call that fails leaves the snapshot as it was; one that
\* succeeds with caching enabled replaces it by the flags of the response
\* alone, taken now and expiring ttl seconds later; the snapshot is absent
\* or complete after every step.
SnapshotAtomic ==
  /\ (IsBulkReturn /\ last'.result # "flags") => bulkFlagsCache' = bulkFlagsCache
  /\ (IsBulkReturn /\ last'.result = "flags" /\ ~cacheConfig.enabled)
       => bulkFlagsCache' = bulkFlagsCache
  /\ (IsBulkReturn /\ last'.result = "flags" /\ cacheConfig.enabled)
       => /\ bulkFlagsCache' # <<>>
          /\ bulkFlagsCache'[1].flags \in ResponseMaps
          /\ SettledRequest.kind = "bulk" => bulkFlagsCache'[1].flags = returned'[1].flags
          /\ bulkFlagsCache'[1].cachedAt = now
          /\ bulkFlagsCache'[1].expiresAt = now + cacheConfig.ttl * MsPerSecond
  /\ bulkFlagsCache' = <<>> \/ (Len(bulkFlagsCache') = 1 /\ Complete(bulkFlagsCache'[1]))

\* C16, as stated: the above, and no later modification the caller makes
\* through the Map it was handed changes the snapshot.
C16_SnapshotUntouchedByCaller ==
  [][ /\ SnapshotAtomic
      /\ last'.op \in {"caller.clear", "caller.write"} => bulkFlagsCache' = bulkFlagsCache ]_vars

\* C16, amended: the above, and the Map handed to the caller is a Map of
\* its own: emptying it does not change the snapshot. (The flag objects in
\* it are the snapshot's.)
C16_SnapshotAtomicMapCopied ==
  [][ /\ SnapshotAtomic
      /\ last'.op = "caller.clear" => bulkFlagsCache' = bulkFlagsCache ]_vars

\* The caller has emptied the Map it was handed and the snapshot it came
\* from still holds its flag.
C16_Witness ==
  /\ last.op = "caller.clear"
  /\ returned # <<>>
  /\ returned[1].flags = <<>>
  /\ returned[1].sharesFlags
  /\ bulkFlagsCache # <<>>
  /\ bulkFlagsCache[1].flags # <<>>

\* ------------------------------------------------------------ C17
\* The step is a call of getAllFlags, directly or through preloadFlags.
IsBulkCallOfAll == last'.op \in {"getAllFlags", "preloadFlags"}

\* C17: with caching enabled, a call of getAllFlags returns the held
\* snapshot's flags and sends no request when a snapshot is held and
\* now < expiresAt, and sends a bulk request otherwise; a call of isEnabled
\* made when the held snapshot has expired is answered by the per-flag
\* cache when it holds an unexpired entry, and else goes to the network.
C17_BulkFreshness ==
  [][ /\ (IsBulkCallOfAll /\ cacheConfig.enabled)
         => IF bulkFlagsCache # <<>> /\ now < bulkFlagsCache[1].expiresAt
            THEN /\ last'.result = "flags"
                 /\ last'.issued = 0
                 /\ inflight' = inflight
                 /\ last'.op = "getAllFlags"
                      => returned'[1].flags = bulkFlagsCache[1].flags
            ELSE /\ last'.result = "pending"
                 /\ last'.issued = 1
                 /\ BagCardinality(inflight') = BagCardinality(inflight) + 1
      /\ (/\ IsCall
          /\ KeyGiven(last'.flagKey)
          /\ NotMalformed(last'.targetId)
          /\ cacheConfig.enabled
          /\ bulkFlagsCache # <<>>
          /\ now >= bulkFlagsCache[1].expiresAt)
         => LET slot == SlotOf(last'.flagKey, last'.targetId)
            IN IF Resident(cache, slot) /\ now <= EntryOf(cache, slot).expiresAt
               THEN /\ last'.result = BoolStr(EntryOf(cache, slot).value)
                    /\ EntryOf(cache', slot).lastAccessed = now
               ELSE /\ last'.result = "pending"
                    /\ last'.issued = 1 ]_vars

\* getAllFlags, called at the very expiresAt of the held snapshot, has sent
\* a request.
C17_Witness ==
  /\ last.op = "getAllFlags"
  /\ last.issued = 1
  /\ cacheConfig.enabled
  /\ bulkFlagsCache # <<>>
  /\ now = bulkFlagsCache[1].expiresAt

\* ------------------------------------------------------------ C18
\* With caching disabled: the return of an isEnabled call gives the value
\* of its response (the fetched value, or defaultValue when the fetch
\* failed); after every step the per-flag cache is empty, no snapshot is
\* held and no refresh cycle runs or has a fetch in flight; every call of
\* getAllFlags sends a request.
DisabledRest ==
  /\ IsReturn
       => /\ last'.result =
               IF last'.input \in ParsedInputs THEN BoolStr(last'.input = "enabled:true")
               ELSE BoolStr(SettledRequest.defaultValue)
          /\ last'.issued = 0
  /\ cache' = <<>>
  /\ bulkFlagsCache' = <<>>
  /\ ~refreshTimer'
  /\ ~refreshInProgress'
  /\ \A r \in Pending(inflight') : r.kind # "refresh"
  /\ last'.op \notin {"timer.refresh", "timer.skipped", "refresh.settled"}
  /\ IsBulkCallOfAll
       => /\ last'.result = "pending"
          /\ last'.issued = 1
          /\ BagCardinality(inflight') = BagCardinality(inflight) + 1

\* The call sends exactly one request and awaits it.
SendsOne ==
  /\ last'.result = "pending"
  /\ last'.issued = 1
  /\ BagCardinality(inflight') = BagCardinality(inflight) + 1

\* C18, as stated: with caching disabled every call of isEnabled with a
\* non-empty key sends exactly one request, and the above.
C18_DisabledEveryCallFetches ==
  [][ ~cacheConfig.enabled
      => /\ (IsCall /\ KeyGiven(last'.flagKey)) => SendsOne
         /\ DisabledRest ]_vars

\* C18, amended: with caching disabled every call of isEnabled with a
\* non-empty key and a target identifier that encodeURIComponent accepts
\* sends exactly one request, and the above.
C18_DisabledEncodableCallFetches ==
  [][ ~cacheConfig.enabled
      => /\ (IsCall /\ KeyGiven(last'.flagKey) /\ NotMalformed(last'.targetId)) => SendsOne
         /\ DisabledRest ]_vars

\* With caching disabled a call has returned the fetched true, nothing is
\* cached, and the clock has passed the first timer period.
C18_Witness ==
  /\ ~cacheConfig.enabled
  /\ last.op = "isEnabled.return"
  /\ last.input = "enabled:true"
  /\ last.result = "true"
  /\ cache = <<>>
  /\ bulkFlagsCache = <<>>
  /\ now >= 2 * TickMs

\* ------------------------------------------------------------ C19
\* The configuration of the same SDK under the 'default' policy.
AsDefault == [cacheConfig EXCEPT !.fallbackBehavior = "default"]

\* What a call of isEnabled that finds no usable bulk entry does under the
\* configuration cfg: the value it resolves to ("pending" when it awaits a
\* fetch), the requests it sends and the per-flag cache it leaves.
CallUnder(cfg) ==
  LET looked == CacheLookup(cfg, cache, CacheKeyOf(last'.flagKey, last'.targetId), now)
      miss == handleCacheMiss(cfg, DefaultValueOf(last'.defaultArg))
      thrown == Truthy(last'.targetId) /\ EncodeThrows(last'.targetId)
  IN [result |-> IF looked.hit THEN BoolStr(looked.value)
                 ELSE IF thrown THEN (IF miss = "throw" THEN "URIError" ELSE miss)
                 ELSE "pending",
      issued |-> IF looked.hit \/ thrown THEN 0 ELSE 1,
      cache |-> looked.cache]

\* What the return of an isEnabled call does under cfg once its fetch has
\* settled with the step's outcome.
ReturnUnder(cfg) ==
  LET parsed == last'.input \in ParsedInputs
      value == IF parsed THEN last'.input = "enabled:true" ELSE SettledRequest.defaultValue
  IN [result |-> BoolStr(value),
      issued |-> 0,
      cache |-> WriteBack(cfg, cache, SettledRequest, value, parsed, now)]

ApiFailureReturned ==
  /\ cacheConfig.fallbackBehavior = "api"
  /\ last.op = "isEnabled.return"
  /\ last.input \in FailureInputs
  /\ Pending(inflight) = {}

\* ------------------------------------------------------------ C20
\* C20: the return of an isEnabled call whose 2xx response had a parseable
\* body without the enabled field gives false whatever defaultValue the
\* call passed; with caching enabled it leaves false in the call's slot,
\* cached now and expiring ttl seconds later; and every call that finds
\* no usable bulk entry and finds false resident and unexpired in its slot
\* returns false and sends no request, whatever its defaultValue.
C20_MissingFieldIsFalse ==
  [][ /\ (IsReturn /\ last'.input = "noEnabledField")
         => /\ last'.result = "false"
            /\ cacheConfig.enabled
               => /\ Resident(cache', PutSlot)
                  /\ EntryOf(cache', PutSlot).value = FALSE
                  /\ EntryOf(cache', PutSlot).cachedAt = now
                  /\ EntryOf(cache', PutSlot).expiresAt = now + cacheConfig.ttl * MsPerSecond
      /\ (/\ IsCall
          /\ KeyGiven(last'.flagKey)
          /\ cacheConfig.enabled
          /\ ~FreshBulkHas(last'.flagKey)
          /\ Resident(cache, SlotOf(last'.flagKey, last'.targetId))
          /\ EntryOf(cache, SlotOf(last'.flagKey, last'.targetId)).value = FALSE
          /\ now <= EntryOf(cache, SlotOf(last'.flagKey, last'.targetId)).expiresAt)
         => /\ last'.result = "false"
            /\ last'.issued = 0
            /\ inflight' = inflight ]_vars

\* A call has returned false from a body without the enabled field and the
\* false sits in the per-flag cache, written at this instant.
C20_Witness ==
  /\ cacheConfig.enabled
  /\ last.op = "isEnabled.return"
  /\ last.input = "noEnabledField"
  /\ last.result = "false"
  /\ Resident(cache, KeyF)
  /\ EntryOf(cache, KeyF).value = FALSE
  /\ EntryOf(cache, KeyF).cachedAt = now

\* The body without the enabled field is about to arrive for a call that
\* passed defaultValue true.
DefaultTrueAwaitsBody ==
  \E r \in Pending(inflight) :
    /\ r.kind = "isEnabled"
    /\ r.phase = "body"
    /\ r.defaultValue = TRUE

\* ------------------------------------------------------------ C21
\* C21: when clearCache returns the per-flag cache holds no entry (size 0)
\* and no snapshot is left that isEnabled would answer a call from.
C21_ClearCacheClearsAll ==
  [][ last'.op = "clearCache"
      => /\ Len(cache') = 0
         /\ \A k \in {KeyF, KeyG, KeyH} : ~BulkUsable(cacheConfig', bulkFlagsCache', now', k) ]_vars

\* clearCache has returned, the per-flag cache is empty and the snapshot
\* loaded before it still answers for its key.
C21_Witness ==
  /\ last.op = "clearCache"
  /\ cache = <<>>
  /\ BulkUsable(cacheConfig, bulkFlagsCache, now, KeyF)

\* ------------------------------------------------------------ C22
\* The error class the API reference names for a fetch outcome.
DocumentedError(input) ==
  CASE input \in {"401", "403"} -> "FlagVaultAuthenticationError"
    [] input \in {"AbortError", "TypeError"} -> "FlagVaultNetworkError"
    [] OTHER -> "FlagVaultAPIError"

\* C22: the return of an isEnabled call whose fetch ended in 401 or 403
\* raises FlagVaultAuthenticationError, in a timeout or a connection
\* failure FlagVaultNetworkError, and in another HTTP error or an
\* unparseable body FlagVaultAPIError.
C22_TypedErrorsRaised ==
  [][ (IsReturn /\ last'.input \in FailureInputs \ {"Error"})
      => last'.result = DocumentedError(last'.input) ]_vars

\* An isEnabled call whose fetch was answered 401 has returned a boolean.
C22_Witness ==
  /\ last.op = "isEnabled.return"
  /\ last.input = "401"
  /\ last.result \in {"true", "false"}

\* ------------------------------------------------------------ C23
\* The re-fetches of the refresher that have not settled.
RefreshesOf(fl) == {r \in Pending(fl) : r.kind = "refresh"}

\* C23: after every step the refresher is in flight exactly when one of
\* its re-fetches has not settled, and holds at most one re-fetch per key;
\* a timer fire during a cycle sends nothing and leaves the fetches in
\* flight as they were; a cycle starts only from idle, when no re-fetch of
\* an earlier cycle is outstanding.
C23_NoOverlappingCycles ==
  [][ /\ refreshInProgress' <=> RefreshesOf(inflight') # {}
      /\ \A r \in RefreshesOf(inflight') :
           /\ CopiesIn(r, inflight') = 1
           /\ \A q \in RefreshesOf(inflight') : q.flagKey = r.flagKey => q = r
      /\ (refreshInProgress /\ last'.op \in {"timer.refresh", "timer.skipped"})
         => /\ last'.op = "timer.skipped"
            /\ last'.issued = 0
            /\ inflight' = inflight
      /\ last'.op = "timer.refresh"
         => /\ ~refreshInProgress
            /\ RefreshesOf(inflight) = {}
            /\ Cardinality(RefreshesOf(inflight')) = last'.issued ]_vars

\* A timer fire was skipped while two re-fetches of the cycle in flight
\* were outstanding, one of them already answered.
C23_Witness ==
  /\ last.op = "timer.skipped"
  /\ refreshInProgress
  /\ Cardinality(RefreshesOf(inflight)) = 2
  /\ \E r \in RefreshesOf(inflight) : r.phase = "body"

\* ------------------------------------------------------------ C24
\* The resident keys of c stored by calls without a target identifier that
\* are, at time t, within the refresh window of their expiry.
ContextlessDue(c, t, keys) ==
  {k \in MapKeys(c) \cap keys : EntryOf(c, k).expiresAt - t <= RefreshWindowMs}

\* The keys a step started re-fetches for.
Refetched == {r.flagKey : r \in RefreshesOf(inflight')}

\* C24: a refresh cycle re-fetches exactly the resident entries that were
\* stored without a target identifier and expire within 30 seconds of the
\* scan: none stored with a target identifier, none with more time left,
\* and every contextless one that is due.
C24_RefreshSelection ==
  [][ last'.op = "timer.refresh"
      => /\ Refetched = ContextlessDue(cache, now, RefreshKeys)
         /\ last'.issued = Cardinality(ContextlessDue(cache, now, RefreshKeys)) ]_vars

\* The same for the flag keys that contain no ':'.
SelectsPlainKeys ==
  [][ last'.op = "timer.refresh"
      => /\ Refetched \cap {KeyF} = ContextlessDue(cache, now, {KeyF})
         /\ Refetched \subseteq RefreshKeys
         /\ last'.issued = Cardinality(Refetched) ]_vars

\* A cycle has scanned a cache that holds, within 30 seconds of its
\* expiry, the contextless entry of the flag 'g:a', and re-fetches nothing
\* for it.
C24_Witness ==
  /\ last.op = "timer.refresh"
  /\ Resident(cache, KeyColon)
  /\ EntryOf(cache, KeyColon).expiresAt - now <= RefreshWindowMs
  /\ \A r \in RefreshesOf(inflight) : r.flagKey # KeyColon

\* ------------------------------------------------------------ C25
\* The re-fetch the step settled wrote its value under its own key.
RefreshWritesOwnKey ==
  /\ Resident(cache', SettledRequest.flagKey)
  /\ EntryOf(cache', SettledRequest.flagKey).value = (last'.input = "enabled:true")
  /\ EntryOf(cache', SettledRequest.flagKey).cachedAt = now

\* The end of one re-fetch leaves the other re-fetches of the cycle in
\* flight, to settle on their own.
OthersStillInFlight ==
  RefreshesOf(inflight') = RefreshesOf(inflight) \ {SettledRequest}

\* C25: a re-fetch of the refresher that ends with a parseable 2xx body
\* writes its value under its own key and leaves the entry of every other
\* key as it was, absent or the same; one that fails leaves the whole
\* per-flag cache as it was; either way the other re-fetches of the cycle
\* stay in flight.
C25_RefreshIsolation ==
  [][ IsRefreshEnd
      => /\ last'.input \in ParsedInputs
            => /\ RefreshWritesOwnKey
               /\ \A k \in {KeyF, KeyG, KeyH} \ {SettledRequest.flagKey} : Same(k)
         /\ last'.input \in FailureInputs => cache' = cache
         /\ OthersStillInFlight ]_vars

\* The same, but for a successful re-fetch that finds the cache holding
\* maxSize entries, which may remove one entry.
RefreshIsolatedBelowCapacity ==
  [][ IsRefreshEnd
      => /\ last'.input \in ParsedInputs
            => /\ RefreshWritesOwnKey
               /\ Len(cache) < cacheConfig.maxSize
                  => \A k \in {KeyF, KeyG, KeyH} \ {SettledRequest.flagKey} : Same(k)
         /\ last'.input \in FailureInputs => cache' = cache
         /\ OthersStillInFlight ]_vars

\* A successful re-fetch of a key that was resident in a full cache has
\* removed the entry of another key, whose own re-fetch is still in flight:
\* the cache is left below maxSize.
C25_Witness ==
  /\ last.op = "refresh.settled"
  /\ last.input \in ParsedInputs
  /\ last.removed # {}
  /\ \E r \in RefreshesOf(inflight) : r.flagKey \in last.removed
  /\ Len(cache) < cacheConfig.maxSize

C27_EveryFetchSettles ==
  /\ (InFlightOf({"isEnabled"}) # {}) ~> (InFlightOf({"isEnabled"}) = {})
  /\ (InFlightOf({"bulk", "preload"}) # {}) ~> (InFlightOf({"bulk", "preload"}) = {})
  /\ (InFlightOf({"refresh"}) # {}) ~> (InFlightOf({"refresh"}) = {})

\* What the timeout does bound: every fetch awaiting the response of
\* fetch() gets past it, with a response or a failure.
FetchPhaseBounded ==
  /\ (AwaitingResponse({"isEnabled"}) # {}) ~> (AwaitingResponse({"isEnabled"}) = {})
  /\ (AwaitingResponse({"bulk", "preload"}) # {}) ~> (AwaitingResponse({"bulk", "preload"}) = {})
  /\ (AwaitingResponse({"refresh"}) # {}) ~> (AwaitingResponse({"refresh"}) = {})

\* The clock has run to its end while isEnabled awaits the body of a
\* response whose timeout was cleared.
C27_Witness ==
  /\ last.op = "tick"
  /\ now = MaxTicks * TickMs
  /\ \E r \in InFlightOf({"isEnabled"}) : r.phase = "body"

\* ------------------------------------------------------------ C28
\* C28: the constructor sets the timer exactly when caching is enabled and
\* refreshInterval > 0; the timer's callback runs, and so a cycle starts,
\* only while the timer is set; destroy leaves the timer cleared and once
\* cleared it is never set again, so no cycle starts after destroy; and a
\* destroy that follows a destroy raises nothing and changes nothing.
C28_TimerLifecycle ==
  /\ refreshTimer <=> (cacheConfig.enabled /\ cacheConfig.refreshInterval > 0)
  /\ [][ /\ last'.op \in {"timer.refresh", "timer.skipped"} => (refreshTimer /\ refreshTimer')
         /\ last'.op = "destroy" => (~refreshTimer' /\ last'.result = "none")
         /\ ~refreshTimer => ~refreshTimer'
         /\ ~refreshTimer => Refetched \subseteq {r.flagKey : r \in RefreshesOf(inflight)}
         /\ (last.op = "destroy" /\ last'.op = "destroy")
            => UNCHANGED <<cacheConfig, cache, bulkFlagsCache, refreshTimer,
                           refreshInProgress, inflight, now, returned>> ]_vars

\* destroy was called a second time, while a re-fetch of the cycle that
\* was running at the first one is still in flight.
C28_Witness ==
  /\ last.op = "destroy"
  /\ last.removed = {}
  /\ ~refreshTimer
  /\ cacheConfig.enabled
  /\ cacheConfig.refreshInterval > 0
  /\ refreshInProgress
  /\ RefreshesOf(inflight) # {}
  /\ cache = <<>>

\* ------------------------------------------------------------ C29
\* C29: once destroy has been called, the fetches that were in flight and
\* settle afterwards (of isEnabled, of a refresh cycle, of getAllFlags)
\* write nothing: each such step leaves the per-flag cache empty and the
\* bulk snapshot as it was.
C29_InFlightDiscarded ==
  [][ (/\ ~refreshTimer
       /\ last'.op \in {"isEnabled.return", "refresh.settled", "getAllFlags.return"})
      => /\ cache' = <<>>
         /\ bulkFlagsCache' = bulkFlagsCache ]_vars

\* After destroy, with no call made since, the fetch of an isEnabled call
\* has settled and its value sits in the per-flag cache.
C29_Witness ==
  /\ ~refreshTimer
  /\ last.op = "isEnabled.return"
  /\ last.input = "enabled:true"
  /\ Len(cache) = 1
  /\ cache[1].value = TRUE
  /\ cache[1].cachedAt = now

\* The same for a re-fetch of the refresher, and for a bulk fetch.
RefetchWrittenAfterDestroy ==
  /\ ~refreshTimer
  /\ last.op = "refresh.settled"
  /\ cache # <<>>

SnapshotStoredAfterDestroy ==
  /\ ~refreshTimer
  /\ last.op = "getAllFlags.return"
  /\ bulkFlagsCache # <<>>
  /\ bulkFlagsCache[1].cachedAt = now
  /\ now > 0

\* ------------------------------------------------------------ C30
\* C30: in every reachable state every resident entry of the per-flag
\* cache has expiresAt = cachedAt + ttl (in milliseconds) and
\* lastAccessed >= cachedAt.
C30_EntryInvariant ==
  \A i \in 1..Len(cache) :
    /\ cache[i].expiresAt = cache[i].cachedAt + cacheConfig.ttl * MsPerSecond
    /\ cache[i].lastAccessed >= cache[i].cachedAt

\* After an eviction the cache holds an entry read by a hit after it was
\* written, and a re-fetch of the refresher has just overwritten the
\* other, which was written earlier.
C30_Witness ==
  /\ last.op = "refresh.settled"
  /\ last.input \in ParsedInputs
  /\ now = 2 * TickMs
  /\ Len(cache) = 2
  /\ \E i, j \in 1..2 :
       /\ cache[i].lastAccessed > cache[i].cachedAt
       /\ cache[j].cachedAt = now

\* ------------------------------------------------------------ C31
\* C31: a put for a key that is resident, made while the cache holds
\* maxSize entries, leaves the set of resident keys as it was and the
\* entry of every other key as it was.
C31_ResidentPutEvictsNothing ==
  [][ (/\ IsPut
       /\ Resident(cache, PutSlot)
       /\ Len(cache) = cacheConfig.maxSize)
      => /\ MapKeys(cache') = MapKeys(cache)
         /\ last'.removed = {}
         /\ \A k \in {KeyF, KeyG, KeyH} \ {PutSlot} : Same(k) ]_vars

\* The return of an isEnabled call has written its key, which a concurrent
\* call had already made resident, and removed another key: the cache is
\* left below maxSize.
C31_Witness ==
  /\ last.op = "isEnabled.return"
  /\ last.input \in ParsedInputs
  /\ last.removed # {}
  /\ Len(cache) < cacheConfig.maxSize
  /\ cache[Len(cache)].cachedAt = now

\* ------------------------------------------------------------ C32
\* The step changed what the slot holds: it made it resident, or replaced
\* its value or the time it was cached.
Rewritten(slot) ==
  /\ Resident(cache', slot)
  /\ \/ ~Resident(cache, slot)
     \/ EntryOf(cache', slot).value # EntryOf(cache, slot).value
     \/ EntryOf(cache', slot).cachedAt # EntryOf(cache, slot).cachedAt

\* C32: a call of isEnabled that misses the snapshot and the per-flag cache
\* sends its own request even while another fetch for the same cache key
\* is in flight; every fetch that completes with a cacheable result leaves
\* its value in its slot, so the slot holds the value of the fetch that
\* completed last; and a slot is written only by the completion of a
\* fetch for it, with the value that fetch returned.
C32_LastWriteWins ==
  [][ /\ (/\ IsCall
          /\ KeyGiven(last'.flagKey)
          /\ NotMalformed(last'.targetId)
          /\ ~FreshBulkHas(last'.flagKey)
          /\ ~CacheLookup(cacheConfig, cache, SlotOf(last'.flagKey, last'.targetId), now).hit)
         => /\ last'.issued = 1
            /\ BagCardinality(inflight') = BagCardinality(inflight) + 1
      /\ IsPut
         => /\ Resident(cache', PutSlot)
            /\ EntryOf(cache', PutSlot).value = (last'.input = "enabled:true")
            /\ EntryOf(cache', PutSlot).cachedAt = now
      /\ \A slot \in RaceSlots :
           Rewritten(slot)
           => /\ IsPut
              /\ PutSlot = slot
              /\ EntryOf(cache', slot).value = (last'.input = "enabled:true") ]_vars

\* Two calls for one key were in flight together: one has returned true
\* and stored it, the fetch of the other has its response and awaits its
\* body, which will overwrite the entry.
C32_Witness ==
  /\ last.op = "isEnabled.return"
  /\ last.input = "enabled:true"
  /\ Resident(cache, KeyF)
  /\ EntryOf(cache, KeyF).value = TRUE
  /\ EntryOf(cache, KeyF).cachedAt = now
  /\ \E r \in Pending(inflight) :
       r.kind = "isEnabled" /\ r.cacheKey = KeyF /\ r.phase = "body"

\* Two fetches of isEnabled for the same cache key are in flight.
TwoFetchesOneKey ==
  \E r \in Pending(inflight) : r.kind = "isEnabled" /\ CopiesIn(r, inflight) = 2

\* ------------------------------------------------------------ C33
\* The lookup a call makes in the per-flag cache under its composite key.
LookedUp ==
  getCachedValue(cache, SlotOf(last'.flagKey, last'.targetId), now)

\* C33: a call of isEnabled with caching enabled is answered by the
\* snapshot when that is unexpired and holds the key, and then the
\* per-flag cache is not read; otherwise (snapshot absent, expired or
\* without the key) it is answered by the per-flag cache when the slot is
\* resident and unexpired, with no request; a request is sent only when
\* both miss, and never more than one; a key the unexpired snapshot lacks
\* is not answered from the snapshot.
C33_ResolutionOrder ==
  [][ (IsCall /\ KeyGiven(last'.flagKey) /\ cacheConfig.enabled)
      => /\ last'.issued \in {0, 1}
         /\ BagCardinality(inflight') = BagCardinality(inflight) + last'.issued
         /\ FreshBulkHas(last'.flagKey)
            => /\ \E rnd \in RandomIds :
                    last'.result =
                      BoolStr(evaluateFlag(FreshBulkFlag(last'.flagKey), last'.targetId, rnd))
               /\ last'.issued = 0
               /\ cache' = cache
         /\ (~FreshBulkHas(last'.flagKey) /\ LookedUp.hit)
            => /\ last'.result = BoolStr(LookedUp.value)
               /\ last'.issued = 0
               /\ cache' = LookedUp.cache
         /\ (~FreshBulkHas(last'.flagKey) /\ ~LookedUp.hit /\ NotMalformed(last'.targetId))
            => /\ last'.result = "pending"
               /\ last'.issued = 1
         /\ last'.issued = 1 => (~FreshBulkHas(last'.flagKey) /\ ~LookedUp.hit) ]_vars

\* An unexpired snapshot is held that lacks the key of the call, the
\* per-flag cache has no entry for it, and the call has sent a request.
C33_Witness ==
  /\ last.op = "isEnabled"
  /\ last.flagKey = KeyF
  /\ cacheConfig.enabled
  /\ bulkFlagsCache # <<>>
  /\ now < bulkFlagsCache[1].expiresAt
  /\ ~FreshBulkHas(KeyF)
  /\ last.result = "pending"
  /\ last.issued = 1

\* A call was answered by the per-flag cache while an unexpired snapshot
\* without its key was held; and one by the snapshot while the per-flag
\* cache held its key.
CacheAnswersUnderSnapshot ==
  /\ last.op = "isEnabled"
  /\ bulkFlagsCache # <<>>
  /\ now < bulkFlagsCache[1].expiresAt
  /\ ~FreshBulkHas(KeyF)
  /\ last.result = "true"
  /\ last.issued = 0

SnapshotAnswersOverCache ==
  /\ last.op = "isEnabled"
  /\ FreshBulkHas(KeyF)
  /\ Resident(cache, KeyF)
  /\ last.issued = 0

\* ------------------------------------------------------------ C34
\* The resident entries read by a hit since they were written, and those
\* past their expiry.
HitEntries == {i \in 1..Len(cache) : cache[i].lastAccessed > cache[i].cachedAt}
ExpiredEntries == {i \in 1..Len(cache) : now > cache[i].expiresAt}

\* C34: getCacheStats returns size = the number of resident entries,
\* hitRate = (resident entries with lastAccessed > cachedAt) / size, and 0
\* for an empty cache, so that 0 <= hitRate <= 1, and expiredEntries = the
\* number of resident entries with now > expiresAt.
C34_CacheStatistics ==
  [][ last'.op = "getCacheStats"
      => LET stats == last'.result
         IN /\ stats.size = Len(cache)
            /\ Len(cache) > 0
               => /\ stats.hitRate[1] = Cardinality(HitEntries)
                  /\ stats.hitRate[2] = Len(cache)
            /\ Len(cache) = 0 => stats.hitRate[1] = 0
            /\ stats.hitRate[2] > 0
            /\ 0 <= stats.hitRate[1]
            /\ stats.hitRate[1] <= stats.hitRate[2]
            /\ stats.expiredEntries = Cardinality(ExpiredEntries) ]_vars

\* getCacheStats has reported two resident entries, one of them read since
\* it was written (hitRate 1/2), both past their expiry.
C34_Witness ==
  /\ last.op = "getCacheStats"
  /\ last.result.size = 2
  /\ last.result.hitRate = <<1, 2>>
  /\ last.result.expiredEntries = 2

\* ------------------------------------------------------------ C35
\* C35: debugFlag and getCacheStats leave the per-flag cache (lastAccessed
\* and expired entries included), the snapshot, the refresher and the
\* fetches in flight as they were and send nothing; debugFlag reports
\* cached = true with the entry's fields exactly when an entry is resident
\* under the key, expired or not, and cached = false with no value
\* otherwise.
C35_DiagnosticsReadOnly ==
  [][ /\ last'.op \in {"getCacheStats", "debugFlag"}
         => /\ UNCHANGED <<cacheConfig, cache, bulkFlagsCache, refreshTimer,
                           refreshInProgress, inflight, now, returned>>
            /\ last'.issued = 0
            /\ last'.removed = {}
      /\ last'.op = "debugFlag"
         => LET info == last'.result
            IN /\ info.cached <=> Resident(cache, last'.flagKey)
               /\ info.cached
                  => /\ info.value = <<EntryOf(cache, last'.flagKey).value>>
                     /\ info.cachedAt = <<EntryOf(cache, last'.flagKey).cachedAt>>
                     /\ info.expiresAt = <<EntryOf(cache, last'.flagKey).expiresAt>>
                     /\ info.lastAccessed = <<EntryOf(cache, last'.flagKey).lastAccessed>>
                     /\ info.timeUntilExpiry = <<EntryOf(cache, last'.flagKey).expiresAt - now>>
               /\ ~info.cached
                  => /\ info.value = <<>>
                     /\ info.timeUntilExpiry = <<>> ]_vars

\* debugFlag has reported an entry past its expiry as cached, and the
\* entry is still resident, with the lastAccessed it had.
C35_Witness ==
  /\ last.op = "debugFlag"
  /\ last.result.cached
  /\ last.result.timeUntilExpiry[1] < 0
  /\ Resident(cache, last.flagKey)
  /\ <<EntryOf(cache, last.flagKey).lastAccessed>> = last.result.lastAccessed
  /\ bulkFlagsCache # <<>>
  /\ refreshInProgress

\* ------------------------------------------------------------ C37
\* SpecSlots: one awaiting caller asks for the flag 'f' and for the flag
\* 'f:u', each with no target identifier and with the target identifier
\* 'u', against a server whose flags do not change: 'f' is on for the
\* target 'u' and off without a target, 'f:u' is off throughout. Every
\* fetch is answered with status 200 and the served value.
KeyFU == <<"f", ":", "u">>
SlotKeys == {KeyF, KeyFU}

Served(flagKey, targetId) == flagKey = KeyF /\ TargetGiven(targetId)

ServedBody(r) == IF Served(r.flagKey, r.targetId) THEN "enabled:true" ELSE "enabled:false"

NextSlots ==
  \/ NoCallPending /\ Calls(SlotKeys, {"undefined"}, {NoOptions, Options(TargetU)})
  \/ \E r \in Pending(inflight) : SingleResponse(r, 200) /\ UNCHANGED hook
  \/ \E r \in Pending(inflight) : SingleBody(r, ServedBody(r)) /\ UNCHANGED hook
  \/ TimerFires
  \/ Tick

SpecSlots == Init /\ [][NextSlots]_vars

\* C37: calls whose (flagKey, targetId) pairs differ share no slot of the
\* per-flag cache, also when a flag key contains ':': against a server
\* whose flags do not change, a call answered from the cache is answered
\* with the value served for its own pair, and a fetch that returns writes
\* no slot that a pair other than its own reads.
C37_CacheKeyInjective ==
  [][ /\ (IsCall /\ last'.result # "pending")
         => last'.result = BoolStr(Served(last'.flagKey, last'.targetId))
      /\ IsPut
         => \A k \in SlotKeys, t \in {Undefined, TargetU} :
              CacheKeyOf(k, t) = PutSlot
              => k = SettledRequest.flagKey /\ t = SettledRequest.targetId ]_vars

\* isEnabled('f:u') with no target identifier has been answered true from
\* the cache: the value served for the flag 'f' and the target 'u', held
\* under the key 'f:u'.
C37_Witness ==
  /\ last.op = "isEnabled"
  /\ last.flagKey = KeyFU
  /\ last.targetId = Undefined
  /\ last.result = "true"
  /\ Resident(cache, KeyFU)

\* ------------------------------------------------------------ C38
\* SpecRaise: the SDK once preloadFlags has stored, at time 0, a snapshot
\* of one flag, on or off, with the seed 's' and a rolloutPercentage just
\* below and just above the buckets of the targets 'u' (1267) and 'v'
\* (3218), or 0, 50 or 100; then isEnabled for the two targets and with no
\* target identifier.
RaisePercentages == {0, 12, 13, 32, 33, 50, 100}

RaiseFlags == {Flag(KeyF, on, <<pct>>, <<<<"s">>>>) : on \in BOOLEAN, pct \in RaisePercentages}

InitRaise ==
  \E flag \in RaiseFlags :
    LET cfg == Config(TRUE, TtlSeconds, MaxCacheSize, 60, "default")
    IN /\ cacheConfig = cfg
       /\ cache = <<>>
       /\ bulkFlagsCache = <<[flags |-> FlagsMap(<<flag>>, <<>>), cachedAt |-> 0,
                              expiresAt |-> cfg.ttl * MsPerSecond]>>
       /\ refreshTimer = TRUE
       /\ refreshInProgress = FALSE
       /\ inflight = EmptyBag
       /\ now = 0
       /\ returned = <<>>
       /\ hook = NoHook
       /\ last = Event("getAllFlags.return", "flags", "flags", 0, {})

NextRaise ==
  \/ NoCallPending /\ Calls({KeyF}, {"undefined"},
                            {NoOptions, Options(TargetU), Options(TargetV)})
  \/ SingleSettles({200}, {"AbortError"}, {"enabled:true"})
  \/ Tick

SpecRaise == InitRaise /\ [][NextRaise]_vars

\* The flag with its rolloutPercentage set to pct.
AtPercentage(flag, pct) == [flag EXCEPT !.rolloutPercentage = <<pct>>]

MaxPercentage == 100

\* C38: for a fixed enabled flag key, seed and supplied target identifier,
\* a call that the evaluator answers true at the flag's rolloutPercentage
\* is answered true at every higher rolloutPercentage up to 100 (and one
\* it answers false is answered false at every lower one down to 0).
C38_RolloutMonotone ==
  [][ (/\ IsCall
       /\ FreshBulkHas(last'.flagKey)
       /\ TargetGiven(last'.targetId)
       /\ FreshBulkFlag(last'.flagKey).rolloutPercentage # <<>>
       /\ FreshBulkFlag(last'.flagKey).rolloutSeed # <<>>)
      => LET flag == FreshBulkFlag(last'.flagKey)
             p == flag.rolloutPercentage[1]
         IN /\ last'.result = "true"
               => \A p2 \in p..MaxPercentage, rnd \in RandomIds :
                    evaluateFlag(AtPercentage(flag, p2), last'.targetId, rnd)
            /\ last'.result = "false"
               => \A p2 \in 0..p, rnd \in RandomIds :
                    ~evaluateFlag(AtPercentage(flag, p2), last'.targetId, rnd) ]_vars

\* A call for the target 'v' has been answered true at 33 percent, the
\* lowest percentage that includes it: one percent less answers false.
C38_Witness ==
  /\ last.op = "isEnabled"
  /\ last.targetId = TargetV
  /\ last.result = "true"
  /\ FreshBulkHas(last.flagKey)
  /\ FreshBulkFlag(last.flagKey).rolloutPercentage = <<33>>
  /\ \A rnd \in RandomIds :
       ~evaluateFlag(AtPercentage(FreshBulkFlag(last.flagKey), 32), TargetV, rnd)

\* ------------------------------------------------------------ C39
\* The values hash[0], hash[1] can take: every pair of bytes.
DigestPairs == (0..(ByteRange - 1)) \X (0..(ByteRange - 1))

\* const bucket = (hash[0] * 256 + hash[1]) % 10000
BucketOf(hash) == (hash[1] * ByteRange + hash[2]) % BucketCount

\* bucket < flag.rolloutPercentage * 100
InRollout(hash, pct) == BucketOf(hash) < pct * PercentScale

\* The number of byte pairs that give the bucket b, and the number the
\* evaluator counts as enabled at the percentage pct.
PairsOf(b) == Cardinality({hash \in DigestPairs : BucketOf(hash) = b})
EnabledPairs(pct) == Cardinality({hash \in DigestPairs : InRollout(hash, pct)})

\* The string evaluateFlag hashes for a supplied target identifier.
HashedString(flag, targetId) ==
  targetId \o <<"-">> \o flag.key \o <<"-">> \o flag.rolloutSeed[1]

\* C39: over the 65,536 values of the first two digest bytes every bucket
\* of 0..9999 is produced by the same number of byte pairs, and at the
\* rolloutPercentage p of an evaluated flag the byte pairs evaluated as
\* enabled are the share p / 100 of all of them; the answer of a call is
\* the one its digest's byte pair gives.
C39_BucketsUniform ==
  [][ (/\ IsCall
       /\ FreshBulkHas(last'.flagKey)
       /\ TargetGiven(last'.targetId)
       /\ FreshBulkFlag(last'.flagKey).isEnabled)
      => LET flag == FreshBulkFlag(last'.flagKey)
             p == flag.rolloutPercentage[1]
             hash == Digest(HashedString(flag, last'.targetId))
         IN /\ last'.result = BoolStr(InRollout(hash, p))
            /\ PairsOf(BucketOf(hash)) = PairsOf(BucketCount - 1)
            /\ EnabledPairs(p) * MaxPercentage = p * Cardinality(DigestPairs) ]_vars

\* A call for the target 'u' (bucket 1267) has been answered at 50
\* percent: more byte pairs give its bucket than give the bucket 9999, and
\* more than half of all byte pairs are evaluated as enabled.
C39_Witness ==
  /\ last.op = "isEnabled"
  /\ last.targetId = TargetU
  /\ last.result = "true"
  /\ FreshBulkHas(last.flagKey)
  /\ FreshBulkFlag(last.flagKey).isEnabled
  /\ FreshBulkFlag(last.flagKey).rolloutPercentage = <<50>>
  /\ PairsOf(BucketOf(Digest(HashedString(FreshBulkFlag(last.flagKey), TargetU))))
       > PairsOf(BucketCount - 1)
  /\ EnabledPairs(50) * 2 > Cardinality(DigestPairs)

\* ------------------------------------------------------------ React hooks
\* The SDK's own variables.
sdkVars == <<cacheConfig, cache, bulkFlagsCache, refreshTimer, refreshInProgress,
             inflight, now, returned>>

HookKinds == {"useFeatureFlag", "useFeatureFlagCached"}

\* The arguments an effect closes over: [sdk, flagKey, defaultValue, targetId].
Deps(flagKey, defaultValue, targetId) ==
  [flagKey |-> flagKey, defaultValue |-> defaultValue, targetId |-> targetId]

\* An effect that has run: let isMounted = true; awaiting while its
\* checkFlag awaits sdk.isEnabled.
Effect(deps) == [deps |-> deps, isMounted |-> TRUE, awaiting |-> TRUE]

\* return () => { isMounted = false }, of the effects that have run.
CleanedUp(effects) ==
  [i \in 1..Len(effects) |-> [effects[i] EXCEPT !.isMounted = FALSE]]

\* cacheTTL, as the component passes it.
CacheTtlMs == 30000

\* const cacheKey = targetId ? `flagvault_${flagKey}:${targetId}` : `flagvault_${flagKey}`
HookCacheKey(deps) ==
  IF Truthy(deps.targetId)
  THEN <<"flagvault_">> \o deps.flagKey \o <<":">> \o deps.targetId
  ELSE <<"flagvault_">> \o deps.flagKey

\* getCachedFlag: the value (<<>> for null) and the flagCache it leaves.
getCachedFlag(fc, key, ttl, t) ==
  IF ~MapHas(fc, key) THEN [value |-> <<>>, flagCache |-> fc]
  ELSE IF t - MapGet(fc, key).timestamp > ttl
  THEN [value |-> <<>>, flagCache |-> MapDelete(fc, key)]
  ELSE [value |-> <<MapGet(fc, key).value>>, flagCache |-> fc]

\* setCachedFlag
setCachedFlag(fc, key, value, t) ==
  MapSet(fc, [key |-> key, value |-> value, timestamp |-> t])

\* Variant: checkFlag sets the state whether or not its effect was cleaned up.
Resumes_ignoresIsMounted(h, i, result, t) ==
  LET e == h.effects[i]
      threw == result \notin {"true", "false"}
      stored == IF h.kind = "useFeatureFlagCached" /\ ~threw
                THEN setCachedFlag(h.flagCache, HookCacheKey(e.deps), result = "true", t)
                ELSE h.flagCache
      shown == IF threw
               THEN [h EXCEPT !.error = <<result>>, !.isEnabled = e.deps.defaultValue,
                              !.isLoading = FALSE]
               ELSE [h EXCEPT !.isEnabled = (result = "true"), !.error = <<>>,
                              !.isLoading = FALSE]
  IN [shown EXCEPT !.flagCache = stored, !.effects[i].awaiting = FALSE]

\* checkFlag of the effect i from the point where await sdk.isEnabled(...)
\* settles, with a boolean or with a thrown error: setCachedFlag (cached
\* hook), then the setState calls under if (isMounted), catch and finally.
Resumes(h, i, result, t) ==
  LET e == h.effects[i]
      threw == result \notin {"true", "false"}
      stored == IF h.kind = "useFeatureFlagCached" /\ ~threw
                THEN setCachedFlag(h.flagCache, HookCacheKey(e.deps), result = "true", t)
                ELSE h.flagCache
      shown == IF ~e.isMounted THEN h
               ELSE IF threw
               THEN [h EXCEPT !.error = <<result>>, !.isEnabled = e.deps.defaultValue,
                              !.isLoading = FALSE]
               ELSE [h EXCEPT !.isEnabled = (result = "true"), !.error = <<>>,
                              !.isLoading = FALSE]
  IN [shown EXCEPT !.flagCache = stored, !.effects[i].awaiting = FALSE]

\* The callback of useEffect on the component state h: checkFlag() up to
\* its first await, and past it when sdk.isEnabled settles without a fetch
\* (then nothing runs in between). The cached hook first asks flagCache.
RunsEffect(h, deps) ==
  LET i == Len(h.effects) + 1
      started == [h EXCEPT !.isLoading = TRUE, !.effects = Append(@, Effect(deps))]
      looked == getCachedFlag(h.flagCache, HookCacheKey(deps), CacheTtlMs, now)
  IN IF h.kind = "useFeatureFlagCached" /\ looked.value # <<>>
     THEN /\ hook' = [started EXCEPT !.isEnabled = looked.value[1], !.error = <<>>,
                                     !.isLoading = FALSE, !.effects[i].awaiting = FALSE]
          /\ last' = Record("useFeatureFlagCached", deps.flagKey, BoolStr(deps.defaultValue),
                            deps.targetId, "none", BoolStr(looked.value[1]), 0, {})
          /\ UNCHANGED sdkVars
     ELSE /\ IsEnabled(deps.flagKey, BoolStr(deps.defaultValue), Options(deps.targetId))
          /\ hook' = LET asked == IF h.kind = "useFeatureFlagCached"
                                  THEN [started EXCEPT !.flagCache = looked.flagCache]
                                  ELSE started
                     IN IF last'.result = "pending" THEN asked
                        ELSE Resumes(asked, i, last'.result, now)

\* The first render of a component that uses the hook: useState(defaultValue),
\* useState(true), useState(null), then its effect.
HookMounts(kind, deps) ==
  /\ hook.kind = "none"
  /\ RunsEffect([hook EXCEPT !.kind = kind, !.mounted = TRUE,
                             !.isEnabled = deps.defaultValue, !.isLoading = TRUE,
                             !.error = <<>>], deps)

\* A render with changed arguments: React runs the cleanup of the previous
\* effect, then the effect again.
MaxEffects == 3

HookRerenders(deps) ==
  /\ hook.mounted
  /\ Len(hook.effects) < MaxEffects
  /\ deps # hook.effects[Len(hook.effects)].deps
  /\ RunsEffect([hook EXCEPT !.effects = CleanedUp(@)], deps)

\* The component unmounts: React runs the cleanup of its effect.
HookUnmounts ==
  /\ hook.mounted
  /\ hook' = [hook EXCEPT !.mounted = FALSE, !.effects = CleanedUp(@)]
  /\ last' = Event("unmount", "none", "none", 0, {})
  /\ UNCHANGED sdkVars

\* The effects whose checkFlag awaits the call that sent the request r.
AwaitingOf(r) ==
  {i \in 1..Len(hook.effects) :
     /\ hook.effects[i].awaiting
     /\ hook.effects[i].deps = Deps(r.flagKey, r.defaultValue, r.targetId)}

\* checkFlag of the effect i goes on when the step made its call return.
Continues(i) ==
  hook' = IF last'.op = "isEnabled.return" THEN Resumes(hook, i, last'.result, now) ELSE hook

\* The network answers the fetch of an effect's call.
HookSettles(statuses, errors, bodies) ==
  \E r \in InFlightOf({"isEnabled"}) :
    \E i \in AwaitingOf(r) :
      \/ \E st \in statuses : SingleResponse(r, st) /\ Continues(i)
      \/ \E e \in errors : SingleRejects(r, e) /\ Continues(i)
      \/ \E b \in bodies : SingleBody(r, b) /\ Continues(i)

\* SpecHooks: one component that uses either hook, mounts, renders again
\* with other arguments (a flag key rejected as empty among them) and
\* unmounts, while the fetches of its effects' calls settle in any order
\* and the clock advances past cacheTTL and the SDK's ttl.
HookDeps == {Deps(k, FALSE, Undefined) : k \in {KeyF, KeyG, EmptyString}}

NextHooks ==
  \/ \E kind \in HookKinds, deps \in HookDeps : HookMounts(kind, deps)
  \/ \E deps \in HookDeps : HookRerenders(deps)
  \/ HookUnmounts
  \/ HookSettles({200, 500}, {"AbortError"}, {"enabled:true", "enabled:false"})
  \/ Tick

SpecHooks == Init /\ [][NextHooks]_vars

\* ------------------------------------------------------------ C40
\* What the hook returns to the component.
Shown(h) == <<h.isEnabled, h.isLoading, h.error>>

\* The latest effect, and the effect whose checkFlag the step resumed.
Latest(h) == h.effects[Len(h.effects)]
ResumedEffect ==
  CHOOSE i \in 1..Len(hook.effects) : hook.effects[i].awaiting /\ ~hook'.effects[i].awaiting

\* The step ran an effect (a first render or a render with new arguments).
EffectRan == Len(hook'.effects) = Len(hook.effects) + 1

\* C40: in both hooks, a call of isEnabled that settles after its effect
\* was cleaned up (the component unmounted, or a newer effect started)
\* changes none of isEnabled, isLoading and error; these change only when
\* an effect runs or when the call of the latest effect of a mounted
\* component settles, which then shows that call's result with isLoading
\* false; at most the latest effect is live, and whenever the component
\* is mounted and its latest effect's evaluation has settled, isLoading is
\* false.
C40_HookStaleness ==
  [][ /\ IsReturn
         => IF hook.effects[ResumedEffect].isMounted
            THEN /\ hook.mounted
                 /\ ResumedEffect = Len(hook.effects)
                 /\ hook'.isEnabled = (last'.result = "true")
                 /\ hook'.error = <<>>
                 /\ ~hook'.isLoading
            ELSE Shown(hook') = Shown(hook)
      /\ Shown(hook') # Shown(hook)
         => \/ EffectRan
            \/ IsReturn /\ hook.effects[ResumedEffect].isMounted
      /\ (EffectRan /\ last'.result = "pending")
         => /\ hook'.isLoading
            /\ hook.mounted => (hook'.isEnabled = hook.isEnabled /\ hook'.error = hook.error)
      /\ (EffectRan /\ last'.result \in {"true", "false"})
         => Shown(hook') = <<last'.result = "true", FALSE, <<>>>>
      /\ (EffectRan /\ last'.result \notin {"true", "false", "pending"})
         => Shown(hook') = <<Latest(hook').deps.defaultValue, FALSE, <<last'.result>>>>
      /\ hook'.mounted
         => /\ Latest(hook').isMounted
            /\ \A i \in 1..(Len(hook'.effects) - 1) : ~hook'.effects[i].isMounted
            /\ ~Latest(hook').awaiting => ~hook'.isLoading
      /\ ~hook'.mounted
         => \A i \in 1..Len(hook'.effects) : ~hook'.effects[i].isMounted ]_vars

\* The call of a cleaned-up effect has just returned true, after the call
\* of the latest effect had settled: the mounted component still shows
\* the latest effect's false, not loading.
C40_Witness ==
  /\ last.op = "isEnabled.return"
  /\ last.result = "true"
  /\ hook.mounted
  /\ Len(hook.effects) >= 2
  /\ \A i \in 1..Len(hook.effects) : ~hook.effects[i].awaiting
  /\ Shown(hook) = <<FALSE, FALSE, <<>>>>

====
